---- MODULE Spec2Model ----
(***************************************************************************)
(* Conversation persistence and the retry/fallback loop of the Bible bot:  *)
(* source/conversation.py (load_chat, save_chat, clear_chat, log_quote,    *)
(* ConversationManager.chat/reset/history) and the /chat and /clearchat    *)
(* commands of source/bot.py, which run as coroutines on one asyncio event *)
(* loop.                                                                   *)
(***************************************************************************)
EXTENDS Integers, Sequences, FiniteSets, TLC

\* ------------------------------------------------------------------------
\* Bounds of the model
\* ------------------------------------------------------------------------

\* In-flight /chat command coroutines (task slots 1..NumTasks).
NumTasks == 2

\* Operations (chat commands, log_quote calls, resets) started in one run.
MaxOps == 2

\* The last reading of the clock.
MaxClock == 2

\* Interactions (button clicks, commands, scheduler calls) in one run of
\* the parts that have no chat in them.
MaxInteractions == 4

\* Longest item list a paginated view is built over.
MaxItems == 24

\* ------------------------------------------------------------------------
\* Program constants
\* ------------------------------------------------------------------------

DEFAULT_MODEL == "gemini-3-flash-preview"

FALLBACK_MODEL == "gemini-2.5-flash"

MAX_HISTORY_MESSAGES == 40

\* range(1, 4): the last attempt number on one model.
MaxAttempts == 3

\* ------------------------------------------------------------------------
\* Inputs
\* ------------------------------------------------------------------------

Users == {"u1", "u2"}

\* The users who send commands under Spec; the other users' files are
\* absent and stay so.
SoloUsers == {"u1"}

Tasks == 1..NumTasks

\* Texts a user sends with /chat.
Msgs == {"hi", "why"}

\* response.text of a successful generation call: None, empty or a text.
None == "None"

ResponseTexts == {None, "", "amen"}

\* Exceptions generate_content can raise: class, status code and the
\* keywords its str() holds (lower-cased).
Errors ==
    [cls : {"SSLError", "ConnectionResetError", "OSError"}, code : {0}, words : {{}}]
    \cup [cls : {"ClientError"}, code : {400, 429, 503}, words : {{}, {"quota"}, {"rate"}}]
    \cup [cls : {"ServerError"}, code : {503}, words : {{}}]

\* The exhaustion error raised by chat itself, and the constructor's error.
RateLimitError == [cls |-> "RateLimitError", code |-> 0, words |-> {"rate"}]

RuntimeError == [cls |-> "RuntimeError", code |-> 0, words |-> {}]

NoError == [cls |-> "none", code |-> 0, words |-> {}]

\* Arguments of log_quote.
Sources == {"daily", "quote"}

VerseText == "For God so loved the world"

VerseRef == "John 3:16"

VerseVersion == "KJV"

\* ------------------------------------------------------------------------
\* Records and files
\* ------------------------------------------------------------------------

\* A chat turn as chat() appends it.
Turn(role, content, ts) ==
    [role |-> role, content |-> content, timestamp |-> ts]

\* Mutant of VerseTurn: meta records the default source whatever was given.
VerseTurn_default_source(text, reference, version, source, ts) ==
    [role |-> "model",
     content |-> <<"[Verse sent to user", source, version, reference, text>>,
     timestamp |-> ts,
     event_type |-> "verse_delivery",
     meta |-> [reference |-> reference, version |-> version, source |-> "quote"]]

\* The entry log_quote appends; the content is the three formatted lines.
VerseTurn(text, reference, version, source, ts) ==
    [role |-> "model",
     content |-> <<"[Verse sent to user", source, version, reference, text>>,
     timestamp |-> ts,
     event_type |-> "verse_delivery",
     meta |-> [reference |-> reference, version |-> version, source |-> source]]

FreshRecord(user_id, ts) ==
    [user_id |-> user_id, created_at |-> ts, updated_at |-> ts, messages |-> <<>>]

\* A file chat_<user_id>.json: absent, holding JSON text (the value it
\* parses to), or holding text that json.load rejects.
NoRecord == [user_id |-> "", created_at |-> 0, updated_at |-> 0, messages |-> <<>>]

AbsentFile == [state |-> "absent", record |-> NoRecord]

CorruptFile == [state |-> "corrupt", record |-> NoRecord]

FileOf(record) == [state |-> "ok", record |-> record]

\* The value json.load returns for a file that holds the JSON text "[]":
\* a list, which has none of a record's keys.
JsonList == [json |-> "list"]

\* The value is a dict: setdefault and get can be called on it.
IsDict(value) == "json" \notin DOMAIN value

\* ------------------------------------------------------------------------
\* Chat file helpers (pure parts)
\* ------------------------------------------------------------------------

\* Mutant of chat_path: the file name does not hold the user id.
chat_path_shared(user_id) == "u1"

\* _chat_path: the file of a user id, named by the id itself.
chat_path(user_id) == user_id

\* What load_chat returns for a file: json.load's result when the file
\* exists and parses, otherwise a brand-new record stamped with the clock.
load_chat(file, user_id, ts) ==
    IF file.state = "ok" THEN file.record ELSE FreshRecord(user_id, ts)

\* Mutants of KeepLast: no trimming at all, and messages[:MAX_HISTORY_MESSAGES].
KeepLast_untrimmed(messages) == messages

KeepLast_oldest(messages) ==
    IF Len(messages) > MAX_HISTORY_MESSAGES
    THEN SubSeq(messages, 1, MAX_HISTORY_MESSAGES)
    ELSE messages

\* Mutant of KeepLast: one message fewer than the cap is kept.
KeepLast_below_cap(messages) ==
    IF Len(messages) > MAX_HISTORY_MESSAGES
    THEN SubSeq(messages, Len(messages) - MAX_HISTORY_MESSAGES + 2, Len(messages))
    ELSE messages

\* messages[-MAX_HISTORY_MESSAGES:]
KeepLast(messages) ==
    IF Len(messages) > MAX_HISTORY_MESSAGES
    THEN SubSeq(messages, Len(messages) - MAX_HISTORY_MESSAGES + 1, Len(messages))
    ELSE messages

\* Mutant of StampAndTrim: updated_at is left as it was loaded.
StampAndTrim_unstamped(record, ts) ==
    [record EXCEPT !.messages = KeepLast(record.messages)]

\* The record as save_chat leaves it in memory: updated_at stamped, the
\* message list trimmed to the cap.
StampAndTrim(record, ts) ==
    [record EXCEPT !.updated_at = ts, !.messages = KeepLast(record.messages)]

\* The file after save_chat(record). io is the outcome of open/json.dump:
\* "ok", "open_fails" (the file is left alone) or "write_fails" (the file
\* was truncated by open(path, "w") and holds a partial dump).
save_chat(file, record, ts, io) ==
    CASE io = "ok" -> FileOf(StampAndTrim(record, ts))
      [] io = "open_fails" -> file
      [] OTHER -> CorruptFile

\* Mutant of clear_chat: the file is emptied, or created empty, instead of
\* being removed when it exists.
clear_chat_truncates(file, io) == IF io = "ok" THEN CorruptFile ELSE file

\* The file after clear_chat. io is the outcome of os.remove.
clear_chat(file, io) ==
    IF file.state # "absent" /\ io = "ok" THEN AbsentFile ELSE file

\* record.get("messages", []): a parsed file that has no such key counts
\* as holding no messages.
Get_messages(record) ==
    IF "messages" \in DOMAIN record THEN record.messages ELSE <<>>

\* Mutant of Append_message: the entry is inserted at the front.
Append_message_front(record, turn) ==
    [record EXCEPT !.messages = <<turn>> \o record.messages]

\* record with one more entry at the end of record["messages"].
Append_message(record, turn) ==
    [record EXCEPT !.messages = Append(record.messages, turn)]

\* Mutant of build_contents: only the newest message is sent.
build_contents_newest(messages) ==
    <<[role |-> messages[Len(messages)].role, text |-> messages[Len(messages)].content]>>

\* _build_contents: role and text of every stored message, in order.
build_contents(messages) ==
    [i \in 1..Len(messages) |-> [role |-> messages[i].role, text |-> messages[i].content]]

\* ------------------------------------------------------------------------
\* Classification of a generation failure by chat's except clauses
\* ------------------------------------------------------------------------

\* _RETRYABLE = (ssl.SSLError, ConnectionResetError, ConnectionError, OSError);
\* the first three are subclasses of OSError.
RETRYABLE == {"SSLError", "ConnectionResetError", "ConnectionError", "OSError"}

IsRetryable(e) == e.cls \in RETRYABLE

\* except genai_errors.ClientError: the test that sends chat to the next model.
IsRateLimit(e) ==
    /\ e.cls = "ClientError"
    /\ \/ e.code \in {429, 503}
       \/ "quota" \in e.words
       \/ "rate" \in e.words

\* Mutants of OnError: a rate-limit failure is retried like a network
\* failure; the attempt test is off by one; an unclassified failure is
\* swallowed and the next model tried.
OnError_quota_retried(e, attempt) ==
    CASE IsRetryable(e) \/ IsRateLimit(e) -> IF attempt < MaxAttempts THEN "retry" ELSE "next"
      [] OTHER -> "raise"

OnError_four_attempts(e, attempt) ==
    CASE IsRetryable(e) -> IF attempt <= MaxAttempts THEN "retry" ELSE "next"
      [] IsRateLimit(e) -> "next"
      [] OTHER -> "raise"

OnError_swallowed(e, attempt) ==
    CASE IsRetryable(e) -> IF attempt < MaxAttempts THEN "retry" ELSE "next"
      [] OTHER -> "next"

\* Mutant of OnError: a network failure is retried until the sixth attempt.
OnError_six_attempts(e, attempt) ==
    CASE IsRetryable(e) -> IF attempt < 2 * MaxAttempts THEN "retry" ELSE "next"
      [] IsRateLimit(e) -> "next"
      [] OTHER -> "raise"

\* "retry": sleep and try the same model again; "next": give up on this
\* model; "raise": propagate the exception.
OnError(e, attempt) ==
    CASE IsRetryable(e) -> IF attempt < MaxAttempts THEN "retry" ELSE "next"
      [] IsRateLimit(e) -> "next"
      [] OTHER -> "raise"

\* Mutant of Backoff: the same pause after every failed attempt.
Backoff_constant(attempt) == 2

\* time.sleep(2 * attempt)
Backoff(attempt) == 2 * attempt

\* Mutant of models_to_try: the fallback comes first.
models_to_try_reversed(self_model) == <<FALLBACK_MODEL, self_model>>

\* models_to_try = [self._model, FALLBACK_MODEL]
models_to_try(self_model) == <<self_model, FALLBACK_MODEL>>

\* Mutant of ReplyText: an answer without text is replaced by a notice.
ReplyText_notice(text) == IF text \in {None, ""} THEN "(no reply)" ELSE text

\* reply_text = response.text or ""
ReplyText(text) == IF text = None THEN "" ELSE text

\* ------------------------------------------------------------------------
\* State
\* ------------------------------------------------------------------------

VARIABLES
    disk,       \* user id -> the file assets/chat_<user_id>.json
    now,        \* the clock _now_iso() reads
    api_key,    \* whether GEMINI_API_KEY is set
    manager,    \* bot._conversation_manager: "none", or self._model once built
    loop,       \* the task running on the event loop, 0 when it is free
    task,       \* task slot -> the state of one /chat command coroutine
    calls,      \* the generate_content calls and sleeps of the chat() call
                \* that is running or has just ended, the task it is in and
                \* the exception it ended with (what the code prints)
    ops,        \* operations started so far
    last_save,  \* the user and the message list (before trimming) of the
                \* save_chat whose result is on disk
    writing,    \* the save_chat that has opened its file and not yet closed
                \* it: the file as it was, and the record being dumped
    seen,       \* what the last load_chat, history or get_message_count
                \* call returned to its caller (a record, a message list
                \* or a count), or that it raised
    sent,       \* the message the bot sent to a user, or the exception a
                \* command handler printed, in the last step
    data,       \* storage._data: the in-memory preference store
    persist,    \* the file assets/persist.json
    welcome,    \* per user: on_interaction calls that wait to send the
                \* welcome DM, and the DMs tried and delivered so far
    jobs,       \* the jobs the scheduler holds
    flow,       \* the /setup session: the view on its message, SetupState
                \* and the views shown so far
    view,       \* a PaginatedView: its item count, page size and page
    cache,      \* bible_api._bible_versions_cache
    http,       \* requests to the Bible API for the version list so far
    listed      \* what the last get_bible_versions or
                \* get_common_english_versions call returned

\* The state of the greeting, the scheduler, /setup and the Bible API.
setup_vars == <<welcome, jobs, flow, view, cache, http, listed>>

\* The state of the chat store and of the /chat coroutines.
chat_vars == <<disk, now, api_key, manager, loop, task, calls, last_save, writing>>

vars ==
    <<disk, now, api_key, manager, loop, task, calls, ops, last_save, writing, seen,
      sent, data, persist, welcome, jobs, flow, view, cache, http, listed>>

\* chat_command has nothing to send yet.
NoResponse == [kind |-> "none", content |-> ""]

IdleTask ==
    [pc |-> "idle", user |-> "", msg |-> "", record |-> NoRecord, contents |-> <<>>,
     mi |-> 1, attempt |-> 1, reply_text |-> None, response |-> NoResponse]

\* No chat() call is running or has just ended.
NoCalls == [owner |-> 0, events |-> <<>>, raised |-> NoError]

\* One entry of calls.events: a generate_content call and how it ended
\* ("ok" with response.text, "retryable", "rate_limit", or "other" with the
\* exception that chat lets through), or a time.sleep.
CallEvent(model, contents, result, text, err) ==
    [ev |-> "call", model |-> model, contents |-> contents, result |-> result,
     secs |-> 0, text |-> text, err |-> err]

SleepEvent(secs) ==
    [ev |-> "sleep", model |-> "", contents |-> <<>>, result |-> "",
     secs |-> secs, text |-> None, err |-> NoError]

NoSave == [user_id |-> "", messages |-> <<>>]

\* No file is open for writing.
NoWrite == [user_id |-> "", before |-> AbsentFile, record |-> NoRecord]

\* No message was sent and no error printed in the last step.
NoSent == [user_id |-> "", kind |-> "none", content |-> "", printed |-> ""]

\* str(e) as the handlers print it: the text that tells the exceptions
\* apart, which is their class here.
Detail(e) == e.cls

\* A handler caught e and printed it; nothing was sent in that step.
Printed(e) == [NoSent EXCEPT !.printed = Detail(e)]

\* A message went out to a user.
Sent(user_id, kind, content) ==
    [user_id |-> user_id, kind |-> kind, content |-> content, printed |-> ""]

\* A user without settings in the preference store.
NoSettings == [bible_version |-> "", scheduled_time |-> "", timezone |-> ""]

\* EMPTY_STORE = {"users": {}, "greeted": {}}: the settings of each user
\* (NoSettings for a user who is no key of "users") and the greeted users.
EMPTY_STORE == [users |-> [u \in Users |-> NoSettings], greeted |-> {}]

\* persist.json holding the JSON text of a store.
PersistOf(store) == [state |-> "ok", content |-> store]

\* No on_interaction call has met the user.
NoWelcome == [pending |-> 0, tried |-> 0, delivered |-> 0]

\* No /setup session is open.
NoFlow ==
    [user_id |-> "", view |-> "none", bible_version |-> None, timezone |-> None,
     time |-> None, shown |-> <<>>]

\* No paginated view is shown.
NoView == [items |-> <<>>, items_per_page |-> 1, current_page |-> 0, total_pages |-> 0]

\* _bible_versions_cache = None
NoCache == [set |-> FALSE, versions |-> <<>>]

\* The bot has started: nobody was met, nothing is scheduled, no /setup
\* session is open and the version list was not fetched.
SetupIdle ==
    /\ welcome = [u \in Users |-> NoWelcome]
    /\ jobs = {}
    /\ flow = NoFlow
    /\ view = NoView
    /\ cache = NoCache
    /\ http = 0
    /\ listed = <<>>

\* Nothing has been read yet.
NoSeen ==
    [op |-> "none", user_id |-> "", raised |-> FALSE,
     record |-> NoRecord, messages |-> <<>>, count |-> 0]

\* The history a user built with n/2 earlier /chat exchanges, alternating
\* the two messages, all before the clock started.
PriorMessages(n) ==
    [i \in 1..n |->
        IF i % 2 = 1
        THEN Turn("user", IF ((i + 1) \div 2) % 2 = 1 THEN "hi" ELSE "why", 0)
        ELSE Turn("model", "amen", 0)]

PriorRecord(user_id, n) ==
    [user_id |-> user_id, created_at |-> 0, updated_at |-> 0, messages |-> PriorMessages(n)]

\* Files found at start-up: none, a history that the next exchange fills to
\* the cap, or a full one.
PriorLens == {MAX_HISTORY_MESSAGES - 2, MAX_HISTORY_MESSAGES}

InitFiles(user_id) == {AbsentFile} \cup {FileOf(PriorRecord(user_id, n)) : n \in PriorLens}

InitOf(active) ==
    /\ disk \in {d \in [Users -> UNION {InitFiles(u) : u \in Users}] :
                    \A u \in Users : d[u] \in (IF u \in active THEN InitFiles(u) ELSE {AbsentFile})}
    /\ now = 0
    /\ api_key \in BOOLEAN
    /\ manager = "none"
    /\ loop = 0
    /\ task = [t \in Tasks |-> IdleTask]
    /\ calls = NoCalls
    /\ ops = 0
    /\ last_save = NoSave
    /\ writing = NoWrite
    /\ seen = NoSeen
    /\ sent = NoSent
    /\ data = EMPTY_STORE
    /\ persist = PersistOf(EMPTY_STORE)
    /\ SetupIdle

\* ConversationManager.history: the stored message list, read from disk.
history(user_id) == Get_messages(load_chat(disk[chat_path(user_id)], user_id, now))

\* Mutant of YieldsLoop: the generation call is awaited, so a task gives
\* the loop back while it waits for the reply.
YieldsLoop_awaited(pc) == TRUE

\* A coroutine gives the event loop back only at an await. Inside
\* chat() nothing is awaited: generate_content and time.sleep block.
YieldsLoop(pc) == pc # "calling"

\* Code of a task runs when the loop is free or the task already has it.
CanRun(t) == loop = 0 \/ loop = t

LoopAfter(t, pc) == IF YieldsLoop(pc) THEN 0 ELSE t

\* ------------------------------------------------------------------------
\* /chat
\* ------------------------------------------------------------------------

\* calls with one more event of task t.
Logged(t, event) ==
    [owner |-> t, events |-> Append(IF calls.owner = t THEN calls.events ELSE <<>>, event),
     raised |-> NoError]

\* The characters of a Discord message and of a cut reply.
MessageLimit == 2000

CutLength == 1997

\* Stands for the one character U+2026 (horizontal ellipsis).
ELLIPSIS == "~"

\* Mutant of Truncate: the cut keeps MessageLimit characters of the reply.
Truncate_late(reply) ==
    IF Len(reply) <= MessageLimit THEN reply
    ELSE SubSeq(reply, 1, MessageLimit) \o ELLIPSIS

\* truncated = reply if len(reply) <= 2000 else reply[:1997] + ELLIPSIS
Truncate(reply) ==
    IF Len(reply) <= MessageLimit THEN reply
    ELSE SubSeq(reply, 1, CutLength) \o ELLIPSIS

\* followup.send(truncated): a plain message.
TextResponse(reply) == [kind |-> "text", content |-> Truncate(reply)]

\* The description of the embed chat_command's except clause builds.
ChatErrorText == "Something went wrong while processing your message. Please try again."

\* Mutant of ErrorResponse: the embed shows the exception.
ErrorResponse_verbatim(e) == [kind |-> "embed", content |-> Detail(e)]

\* The embed of chat_command's except clause; e is printed, not shown.
ErrorResponse(e) == [kind |-> "embed", content |-> ChatErrorText]

\* A task that left chat(): only what chat_command still uses is kept, the
\* reply it got and the message it is about to send with followup.send.
Ended(tk, pc, reply, response) ==
    [IdleTask EXCEPT !.pc = pc, !.user = tk.user, !.reply_text = reply,
                     !.response = response]

\* chat_command up to its first await (interaction.response.defer). The new
\* coroutine takes the first free slot.
ChatCommand(t, u, m) ==
    /\ loop = 0
    /\ ops < MaxOps
    /\ task[t].pc = "idle"
    /\ \A t2 \in Tasks : t2 < t => task[t2].pc # "idle"
    /\ task' = [task EXCEPT ![t] = [IdleTask EXCEPT !.pc = "deferred", !.user = u, !.msg = m]]
    /\ ops' = ops + 1
    /\ calls' = NoCalls
    /\ sent' = NoSent
    /\ UNCHANGED <<setup_vars, disk, now, api_key, manager, loop, last_save, writing, seen, data, persist>>

\* Mutant of WithUserTurn: the user turn is appended twice.
WithUserTurn_twice(record, msg, ts) ==
    Append_message(Append_message(record, Turn("user", msg, ts)), Turn("user", msg, ts))

\* chat()'s first lines on the loaded record: the user turn is appended.
WithUserTurn(record, msg, ts) == Append_message(record, Turn("user", msg, ts))

\* _get_conversation_manager() and the head of chat(): build the manager on
\* first use (RuntimeError without an API key), load the record, append the
\* user turn, build the request and enter the model loop.
ChatStart(t) ==
    /\ loop = 0
    /\ task[t].pc = "deferred"
    /\ IF manager = "none" /\ ~api_key
       THEN /\ task' = [task EXCEPT ![t] = Ended(task[t], "raised", None,
                                                  ErrorResponse(RuntimeError))]
            /\ calls' = [owner |-> t, events |-> <<>>, raised |-> RuntimeError]
            /\ sent' = Printed(RuntimeError)
            /\ UNCHANGED <<manager, loop>>
       ELSE LET u == task[t].user
                rec == WithUserTurn(load_chat(disk[chat_path(u)], u, now), task[t].msg, now)
            IN /\ manager' = IF manager = "none" THEN DEFAULT_MODEL ELSE manager
               /\ task' = [task EXCEPT ![t].pc = "calling", ![t].record = rec,
                                       ![t].contents = build_contents(rec.messages),
                                       ![t].mi = 1, ![t].attempt = 1]
               /\ loop' = LoopAfter(t, "calling")
               /\ calls' = [owner |-> t, events |-> <<>>, raised |-> NoError]
               /\ sent' = NoSent
    /\ UNCHANGED <<setup_vars, disk, now, api_key, ops, last_save, writing, seen, data, persist>>

\* The model the task calls next.
CurrentModel(t) == models_to_try(manager)[task[t].mi]

\* generate_content returns: reply_text is set, both loops are left, the
\* model turn is appended and the record saved; chat returns the reply.
GenerateOk(t, text, io) ==
    /\ CanRun(t)
    /\ task[t].pc = "calling"
    /\ LET u == task[t].user
           reply == ReplyText(text)
           rec == Append_message(task[t].record, Turn("model", reply, now))
           path == chat_path(rec.user_id)
       IN /\ disk' = [disk EXCEPT ![path] = save_chat(disk[path], rec, now, io)]
          /\ last_save' = [user_id |-> u, messages |-> rec.messages]
          /\ task' = [task EXCEPT ![t] = Ended(task[t], "returned", reply, TextResponse(reply))]
          /\ calls' = Logged(t, CallEvent(CurrentModel(t), task[t].contents, "ok", text, NoError))
          /\ loop' = LoopAfter(t, "returned")
          /\ sent' = NoSent
    /\ UNCHANGED <<setup_vars, now, api_key, manager, ops, writing, seen, data, persist>>

\* Mutant of IsLastModel: the loop over the models stops after the first.
IsLastModel_first(mi, models) == mi >= 1

\* The for loop over models_to_try ends after this model.
IsLastModel(mi, models) == mi = Len(models)

\* The result a failed call is logged with.
ResultOf(e) ==
    CASE IsRetryable(e) -> "retryable"
      [] IsRateLimit(e) -> "rate_limit"
      [] OTHER -> "other"

\* generate_content raises e: retry after a back-off sleep, move to the
\* next model, raise RateLimitError after the last model, or propagate e.
GenerateFails(t, e) ==
    /\ CanRun(t)
    /\ task[t].pc = "calling"
    /\ LET what == OnError(e, task[t].attempt)
           called == Logged(t, CallEvent(CurrentModel(t), task[t].contents, ResultOf(e), None,
                                         IF what = "raise" THEN e ELSE NoError))
           last == IsLastModel(task[t].mi, models_to_try(manager))
       IN CASE what = "retry" ->
                 /\ task' = [task EXCEPT ![t].attempt = @ + 1]
                 /\ calls' = [called EXCEPT !.events = Append(@, SleepEvent(Backoff(task[t].attempt)))]
                 /\ loop' = LoopAfter(t, "calling")
                 /\ sent' = NoSent
            [] what = "next" /\ ~last ->
                 /\ task' = [task EXCEPT ![t].mi = @ + 1, ![t].attempt = 1]
                 /\ calls' = called
                 /\ loop' = LoopAfter(t, "calling")
                 /\ sent' = NoSent
            [] what = "next" /\ last ->
                 /\ task' = [task EXCEPT ![t] = Ended(task[t], "raised", None,
                                                       ErrorResponse(RateLimitError))]
                 /\ calls' = [called EXCEPT !.raised = RateLimitError]
                 /\ loop' = LoopAfter(t, "raised")
                 /\ sent' = Printed(RateLimitError)
            [] OTHER ->
                 /\ task' = [task EXCEPT ![t] = Ended(task[t], "raised", None, ErrorResponse(e))]
                 /\ calls' = [called EXCEPT !.raised = e]
                 /\ loop' = LoopAfter(t, "raised")
                 /\ sent' = Printed(e)
    /\ UNCHANGED <<setup_vars, disk, now, api_key, manager, ops, last_save, writing, seen, data, persist>>

\* chat_command's last await: the reply or the error embed is sent and the
\* coroutine ends.
Followup(t) ==
    /\ loop = 0
    /\ task[t].pc \in {"returned", "raised"}
    /\ task' = [task EXCEPT ![t] = IdleTask]
    /\ calls' = NoCalls
    /\ sent' = Sent(task[t].user, task[t].response.kind, task[t].response.content)
    /\ UNCHANGED <<setup_vars, disk, now, api_key, manager, loop, ops, last_save, writing, seen, data, persist>>

\* ------------------------------------------------------------------------
\* log_quote, /clearchat, the clock
\* ------------------------------------------------------------------------

\* log_quote(user_id, text, reference, version, source): load, append the
\* verse entry, save. It runs to its end without an await.
LogQuote(u, source, io) ==
    /\ loop = 0
    /\ ops < MaxOps
    /\ LET rec == Append_message(load_chat(disk[chat_path(u)], u, now),
                                 VerseTurn(VerseText, VerseRef, VerseVersion, source, now))
           path == chat_path(rec.user_id)
       IN /\ disk' = [disk EXCEPT ![path] = save_chat(disk[path], rec, now, io)]
          /\ last_save' = [user_id |-> u, messages |-> rec.messages]
    /\ ops' = ops + 1
    /\ calls' = NoCalls
    /\ sent' = NoSent
    /\ UNCHANGED <<setup_vars, now, api_key, manager, loop, task, writing, seen, data, persist>>

\* The messages of clearchat_command.
ClearedText == "Your chat history has been reset. Start fresh with a new question!"

ClearFailedText == "Failed to clear history. Please try again."

\* clearchat_command: get the manager (RuntimeError without an API key,
\* answered with the failure message) and reset(user_id) = clear_chat.
ClearChat(u, io) ==
    /\ loop = 0
    /\ writing = NoWrite
    /\ ops < MaxOps
    /\ IF manager = "none" /\ ~api_key
       THEN /\ sent' = [Sent(u, "text", ClearFailedText) EXCEPT !.printed = Detail(RuntimeError)]
            /\ UNCHANGED <<manager, disk, last_save>>
       ELSE /\ manager' = IF manager = "none" THEN DEFAULT_MODEL ELSE manager
            /\ disk' = [disk EXCEPT ![chat_path(u)] = clear_chat(disk[chat_path(u)], io)]
            /\ last_save' = IF last_save.user_id = u THEN NoSave ELSE last_save
            /\ sent' = Sent(u, "embed", ClearedText)
    /\ ops' = ops + 1
    /\ calls' = NoCalls
    /\ UNCHANGED <<setup_vars, now, api_key, loop, task, writing, seen, data, persist>>

\* ------------------------------------------------------------------------
\* Specification: one user sends commands, the file system works (every
\* open, write and remove succeeds) and the clock stands still.
\* ------------------------------------------------------------------------

NextOf(active) ==
    \/ \E t \in Tasks, u \in active, m \in Msgs : ChatCommand(t, u, m)
    \/ \E t \in Tasks : ChatStart(t)
    \/ \E t \in Tasks, text \in ResponseTexts : GenerateOk(t, text, "ok")
    \/ \E t \in Tasks, e \in Errors : GenerateFails(t, e)
    \/ \E t \in Tasks : Followup(t)
    \/ \E u \in active, source \in Sources : LogQuote(u, source, "ok")
    \/ \E u \in active : ClearChat(u, "ok")

Init == InitOf(SoloUsers)

Next == NextOf(SoloUsers)

Spec == Init /\ [][Next]_vars

\* ------------------------------------------------------------------------
\* Specification: every user sends commands; the generation service fails
\* in one way of each kind (network, rate limit, other).
\* ------------------------------------------------------------------------

SomeErrors ==
    {[cls |-> "OSError", code |-> 0, words |-> {}],
     [cls |-> "ClientError", code |-> 429, words |-> {}],
     [cls |-> "ClientError", code |-> 400, words |-> {}]}

InitUsers == InitOf(Users) /\ api_key

NextUsers ==
    \/ \E t \in Tasks, u \in Users : ChatCommand(t, u, "hi")
    \/ \E t \in Tasks : ChatStart(t)
    \/ \E t \in Tasks : GenerateOk(t, "amen", "ok")
    \/ \E t \in Tasks, e \in SomeErrors : GenerateFails(t, e)
    \/ \E t \in Tasks : Followup(t)
    \/ \E u \in Users : LogQuote(u, "daily", "ok")
    \/ \E u \in Users : ClearChat(u, "ok")

SpecUsers == InitUsers /\ [][NextUsers]_vars

\* ------------------------------------------------------------------------
\* Specification of the store alone, seen between its file-system calls as
\* a reader in another thread or process sees it. The files found at
\* start-up may also hold text that is no JSON, or JSON that is no record;
\* open, json.dump and os.remove may fail. save_chat takes two steps: open
\* (path, "w"), which empties the file, and json.dump with the close.
\* ------------------------------------------------------------------------

\* Outcomes of a read (open(path, "r")), of open(path, "w"), of json.dump
\* and of os.remove.
ReadIO == {"ok", "open_fails"}

OpenIO == {"ok", "open_fails"}

DumpIO == {"ok", "write_fails"}

RemoveIO == {"ok", "remove_fails"}

StoreFiles(user_id) == InitFiles(user_id) \cup {CorruptFile, FileOf(JsonList)}

InitStore ==
    /\ disk \in {d \in [Users -> UNION {StoreFiles(u) : u \in Users}] :
                    \A u \in Users :
                        d[u] \in (IF u \in SoloUsers THEN StoreFiles(u) ELSE {AbsentFile})}
    /\ now = 0
    /\ api_key \in BOOLEAN
    /\ manager = "none"
    /\ loop = 0
    /\ task = [t \in Tasks |-> IdleTask]
    /\ calls = NoCalls
    /\ ops = 0
    /\ last_save = NoSave
    /\ writing = NoWrite
    /\ seen = NoSeen
    /\ sent = NoSent
    /\ data = EMPTY_STORE
    /\ persist = PersistOf(EMPTY_STORE)
    /\ SetupIdle

\* load_chat when the read itself may fail: the except clause of load_chat
\* catches the error of open as it catches that of json.load.
load_chat_io(file, user_id, ts, io) ==
    IF io = "ok" THEN load_chat(file, user_id, ts) ELSE FreshRecord(user_id, ts)

\* Mutant of after_load: a load that finds no file creates it.
after_load_creates(file, user_id, ts) ==
    IF file.state = "absent" THEN FileOf(FreshRecord(user_id, ts)) ELSE file

\* The file after load_chat has read it: load_chat opens it for reading
\* only and writes nothing.
after_load(file, user_id, ts) == file

\* What a read leaves in seen and on disk.
Read(u, result) ==
    /\ ops < MaxOps
    /\ seen' = [result EXCEPT !.user_id = u]
    /\ disk' = [disk EXCEPT ![chat_path(u)] = after_load(disk[chat_path(u)], u, now)]
    /\ ops' = ops + 1
    /\ sent' = NoSent
    /\ UNCHANGED <<setup_vars, now, api_key, manager, loop, task, calls, last_save, writing, data, persist>>

\* load_chat(user_id), called from any thread or process.
Load(u, io) ==
    /\ u \in Users
    /\ Read(u, [NoSeen EXCEPT !.op = "load",
                                !.record = load_chat_io(disk[chat_path(u)], u, now, io)])

\* ConversationManager.history(user_id): load_chat(user_id).get("messages",
\* []); get is no attribute of a list, so the call raises AttributeError.
History(u, io) ==
    LET record == load_chat_io(disk[chat_path(u)], u, now, io)
    IN IF IsDict(record)
       THEN Read(u, [NoSeen EXCEPT !.op = "history", !.messages = Get_messages(record)])
       ELSE Read(u, [NoSeen EXCEPT !.op = "history", !.raised = TRUE])

\* get_message_count(user_id): len(record.get("messages", [])).
GetMessageCount(u, io) ==
    LET record == load_chat_io(disk[chat_path(u)], u, now, io)
    IN IF IsDict(record)
       THEN Read(u, [NoSeen EXCEPT !.op = "count", !.count = Len(Get_messages(record))])
       ELSE Read(u, [NoSeen EXCEPT !.op = "count", !.raised = TRUE])

\* log_quote up to and including save_chat's open(path, "w"): load, append
\* the verse entry (setdefault is no attribute of a list: the call ends
\* there), then open the file, which empties it; when open fails save_chat
\* prints the error and the file is as it was.
LogQuoteOpen(u, source, rio, io) ==
    /\ writing = NoWrite
    /\ ops < MaxOps
    /\ LET loaded == load_chat_io(disk[chat_path(u)], u, now, rio)
       IN IF ~IsDict(loaded) \/ io = "open_fails"
          THEN UNCHANGED <<disk, writing>>
          ELSE LET rec == Append_message(loaded,
                              VerseTurn(VerseText, VerseRef, VerseVersion, source, now))
                   path == chat_path(rec.user_id)
               IN /\ disk' = [disk EXCEPT ![path] = CorruptFile]
                  /\ writing' = [user_id |-> rec.user_id, before |-> disk[path], record |-> rec]
    /\ ops' = ops + 1
    /\ sent' = NoSent
    /\ UNCHANGED <<setup_vars, now, api_key, manager, loop, task, calls, last_save, seen, data, persist>>

\* json.dump into the open file and the close at the end of the with
\* block: the file holds the record, or part of its text when the dump
\* fails; save_chat prints the error and returns either way.
SaveDump(io) ==
    /\ writing # NoWrite
    /\ LET path == chat_path(writing.user_id)
       IN disk' = [disk EXCEPT ![path] = save_chat(disk[path], writing.record, now, io)]
    /\ last_save' = IF io = "ok"
                    THEN [user_id |-> writing.user_id, messages |-> writing.record.messages]
                    ELSE NoSave
    /\ writing' = NoWrite
    /\ sent' = NoSent
    /\ UNCHANGED <<setup_vars, now, api_key, manager, loop, task, calls, ops, seen, data, persist>>

NextStore ==
    \/ \E u \in SoloUsers, io \in ReadIO : Load(u, io)
    \/ \E u \in SoloUsers, io \in ReadIO : History(u, io)
    \/ \E u \in SoloUsers, io \in ReadIO : GetMessageCount(u, io)
    \/ \E u \in SoloUsers, source \in Sources, rio \in ReadIO, io \in OpenIO :
          LogQuoteOpen(u, source, rio, io)
    \/ \E io \in DumpIO : SaveDump(io)
    \/ \E u \in SoloUsers, io \in RemoveIO : ClearChat(u, io)

SpecStore == InitStore /\ [][NextStore]_vars

\* ------------------------------------------------------------------------
\* Specification of the chat history when nothing but /chat and /clearchat
\* touches it (no log_quote). Every generate_content call comes to an end,
\* by returning or by raising: the SDK call is given no timeout by chat(),
\* so this is asked of the service; time.sleep always ends.
\* ------------------------------------------------------------------------

\* The generation call of task t ends, one way or another.
Generate(t) ==
    \/ \E text \in {None, "amen"} : GenerateOk(t, text, "ok")
    \/ \E e \in SomeErrors : GenerateFails(t, e)

NextChat ==
    \/ \E t \in Tasks, u \in SoloUsers : ChatCommand(t, u, "hi")
    \/ \E t \in Tasks : ChatStart(t)
    \/ \E t \in Tasks : Generate(t)
    \/ \E t \in Tasks : Followup(t)
    \/ \E u \in SoloUsers : ClearChat(u, "ok")

SpecChat == Init /\ [][NextChat]_vars /\ \A t \in Tasks : WF_vars(Generate(t))

\* ------------------------------------------------------------------------
\* Specification of chat() for the managers that can be constructed:
\* ConversationManager(model=...) takes any model name, the default, the
\* fallback's own name or another one. The manager exists from the start.
\* ------------------------------------------------------------------------

\* Values of the constructor's model parameter.
PrimaryModels == {DEFAULT_MODEL, FALLBACK_MODEL, "gemini-pro"}

InitModels ==
    /\ disk \in {d \in [Users -> UNION {InitFiles(u) : u \in Users}] :
                    \A u \in Users :
                        d[u] \in (IF u \in SoloUsers THEN InitFiles(u) ELSE {AbsentFile})}
    /\ now = 0
    /\ api_key = TRUE
    /\ manager \in PrimaryModels
    /\ loop = 0
    /\ task = [t \in Tasks |-> IdleTask]
    /\ calls = NoCalls
    /\ ops = 0
    /\ last_save = NoSave
    /\ writing = NoWrite
    /\ seen = NoSeen
    /\ sent = NoSent
    /\ data = EMPTY_STORE
    /\ persist = PersistOf(EMPTY_STORE)
    /\ SetupIdle

NextModels ==
    \/ \E t \in Tasks, u \in SoloUsers : ChatCommand(t, u, "hi")
    \/ \E t \in Tasks : ChatStart(t)
    \/ \E t \in Tasks : GenerateOk(t, "amen", "ok")
    \/ \E t \in Tasks, e \in SomeErrors : GenerateFails(t, e)
    \/ \E t \in Tasks : Followup(t)

SpecModels == InitModels /\ [][NextModels]_vars

\* ------------------------------------------------------------------------
\* Specification of /chat when the service answers at length: replies of
\* a few characters, of exactly the size of a Discord message and longer.
\* ------------------------------------------------------------------------

RECURSIVE Repeat(_, _)
\* The string s written n times.
Repeat(s, n) ==
    IF n = 0 THEN ""
    ELSE LET half == Repeat(s, n \div 2)
         IN half \o half \o (IF n % 2 = 1 THEN s ELSE "")

\* response.text of the long answers.
LongReplies == {Repeat("a", n) : n \in {MessageLimit, MessageLimit + 1, MessageLimit + 5}}

NextLong ==
    \/ \E t \in Tasks, u \in SoloUsers : ChatCommand(t, u, "hi")
    \/ \E t \in Tasks : ChatStart(t)
    \/ \E t \in Tasks, text \in LongReplies \cup {"amen"} : GenerateOk(t, text, "ok")
    \/ \E t \in Tasks : Followup(t)

SpecLong == Init /\ [][NextLong]_vars

\* ------------------------------------------------------------------------
\* Specification with a running clock: datetime.now(timezone.utc) moves on
\* between and during the operations and never goes back.
\* ------------------------------------------------------------------------

\* _now_iso() gives a later time.
Tick ==
    /\ now < MaxClock
    /\ now' = now + 1
    /\ sent' = NoSent
    /\ UNCHANGED <<setup_vars, disk, api_key, manager, loop, task, calls, ops, last_save, writing, seen,
                   data, persist>>

NextClock ==
    \/ \E t \in Tasks, u \in SoloUsers : ChatCommand(t, u, "hi")
    \/ \E t \in Tasks : ChatStart(t)
    \/ \E t \in Tasks : GenerateOk(t, "amen", "ok")
    \/ \E t \in Tasks : Followup(t)
    \/ \E u \in SoloUsers : LogQuote(u, "daily", "ok")
    \/ \E u \in SoloUsers : ClearChat(u, "ok")
    \/ Tick

InitClock == Init /\ api_key

SpecClock == InitClock /\ [][NextClock]_vars

\* ------------------------------------------------------------------------
\* Specification of the preference store (source/storage.py) and of the
\* two ways a verse reaches a user: the scheduled daily delivery and the
\* /quote command. At start-up persist.json and the memory hold the empty
\* store. Opening persist.json for writing may fail.
\* ------------------------------------------------------------------------

\* Arguments of save_user_settings.
BibleVersions == {"KJV", "ASV"}

ScheduledTime == "08:00"

Timezone == "America/New_York"

\* Outcomes of _flush: os.makedirs and open(PERSIST_FILE, "w") succeed, or
\* raise before the file is touched.
FlushIO == {"ok", "open_fails"}

\* persist.json after _flush() of the store.
flush(file, store, io) == IF io = "ok" THEN PersistOf(store) ELSE file

\* What a write to the preference store leaves in seen: the call and
\* whether its except clause ran (save_user_settings then returns False).
Wrote(op, u, io) == [NoSeen EXCEPT !.op = op, !.user_id = u, !.raised = (io # "ok")]

\* save_user_settings: the settings go into _data, then _flush(); an
\* exception of _flush is printed and False returned.
SaveUserSettings(u, version, io) ==
    /\ ops < MaxOps
    /\ LET store == [data EXCEPT !.users[u] =
                        [bible_version |-> version, scheduled_time |-> ScheduledTime,
                         timezone |-> Timezone]]
       IN /\ data' = store
          /\ persist' = flush(persist, store, io)
    /\ seen' = Wrote("save_user_settings", u, io)
    /\ ops' = ops + 1
    /\ sent' = NoSent
    /\ UNCHANGED <<setup_vars, disk, now, api_key, manager, loop, task, calls, last_save, writing>>

\* mark_greeted: the user goes into _data["greeted"], then _flush().
MarkGreeted(u, io) ==
    /\ ops < MaxOps
    /\ LET store == [data EXCEPT !.greeted = @ \cup {u}]
       IN /\ data' = store
          /\ persist' = flush(persist, store, io)
    /\ seen' = Wrote("mark_greeted", u, io)
    /\ ops' = ops + 1
    /\ sent' = NoSent
    /\ UNCHANGED <<setup_vars, disk, now, api_key, manager, loop, task, calls, last_save, writing>>

\* The embed of get_quote when no verse could be fetched.
QuoteErrorText == "Could not fetch verse. Please try again."

\* Outcomes of user.send: sent, discord.Forbidden, another exception.
SendIO == {"ok", "Forbidden", "HTTPException"}

\* Outcomes of bot.fetch_user: the user, None, or an exception.
FetchUserIO == {"ok", "None", "NotFound"}

\* What a send_daily_verse call did: whether an exception left it, how
\* many times user.send was called, and the message that went out.
DailyResult(raised, dms, message) == [raised |-> raised, dms |-> dms, message |-> message]

\* Variant of send_daily_verse that sends the embed although
\* get_random_verse returned None.
send_daily_verse_without_verse(store, user_id, fetched, found, dm) ==
    IF store.users[user_id] = NoSettings THEN DailyResult(FALSE, 0, NoSent)
    ELSE IF found # "ok" THEN DailyResult(FALSE, 0, NoSent)
    ELSE DailyResult(FALSE, 1, IF dm = "ok" THEN Sent(user_id, "embed", VerseText) ELSE NoSent)

\* send_daily_verse(user_id): it returns without a DM when the user has no
\* settings, when get_random_verse gave no verse, and when fetch_user gave
\* no user or raised (caught by the outer except); otherwise user.send is
\* called once, and what it raises is caught and printed.
send_daily_verse(store, user_id, fetched, found, dm) ==
    IF store.users[user_id] = NoSettings THEN DailyResult(FALSE, 0, NoSent)
    ELSE IF ~fetched THEN DailyResult(FALSE, 0, NoSent)
    ELSE IF found # "ok" THEN DailyResult(FALSE, 0, NoSent)
    ELSE DailyResult(FALSE, 1, IF dm = "ok" THEN Sent(user_id, "embed", VerseText) ELSE NoSent)

\* What a send_daily_verse call leaves in seen.
Daily(u, result) ==
    [NoSeen EXCEPT !.op = "send_daily_verse", !.user_id = u, !.raised = result.raised,
                   !.count = result.dms]

\* A call of send_daily_verse(user_id). Nothing but the DM is done.
SendDailyVerse(u, fetched, found, dm) ==
    /\ loop = 0
    /\ ops < MaxOps
    /\ LET result == send_daily_verse(data, u, fetched, found, dm)
       IN /\ sent' = result.message
          /\ seen' = Daily(u, result)
    /\ ops' = ops + 1
    /\ UNCHANGED <<setup_vars, disk, now, api_key, manager, loop, task, calls, last_save, writing,
                   data, persist>>

\* get_quote: the verse embed, or the error embed when the Bible API gave
\* no verse. Nothing else is done.
GetQuote(u, fetched) ==
    /\ loop = 0
    /\ ops < MaxOps
    /\ sent' = IF fetched THEN Sent(u, "embed", VerseText) ELSE Sent(u, "embed", QuoteErrorText)
    /\ ops' = ops + 1
    /\ UNCHANGED <<setup_vars, disk, now, api_key, manager, loop, task, calls, last_save, writing, seen,
                   data, persist>>

NextPrefs ==
    \/ \E u \in Users, version \in BibleVersions, io \in FlushIO : SaveUserSettings(u, version, io)
    \/ \E u \in Users, io \in FlushIO : MarkGreeted(u, io)
    \/ \E u \in Users, fetched \in BOOLEAN, found \in FetchUserIO, dm \in SendIO :
          SendDailyVerse(u, fetched, found, dm)
    \/ \E u \in Users, fetched \in BOOLEAN : GetQuote(u, fetched)

SpecPrefs == Init /\ [][NextPrefs]_vars

\* ------------------------------------------------------------------------
\* Specification of the greeting: BibleBot.on_interaction runs for every
\* interaction of a user, concurrently with the others on the event loop.
\* All chat files are absent and stay so.
\* ------------------------------------------------------------------------

InitBot == InitOf({}) /\ api_key

\* Mutant of has_been_greeted: the answer is read from persist.json.
has_been_greeted_file(user_id) == user_id \in persist.content.greeted

\* has_been_greeted: str(user_id) in _data.get("greeted", {})
has_been_greeted(user_id) == user_id \in data.greeted

\* The description of the welcome embed.
WelcomeText == "Thanks for adding the app!"

\* on_interaction up to its await: a user not yet greeted is marked greeted
\* (mark_greeted, whose flush may fail) and the welcome DM is handed to
\* user.send; for a greeted user nothing is done.
OnInteraction(u, io) ==
    /\ ops < MaxInteractions
    /\ IF ~has_been_greeted(u)
       THEN LET store == [data EXCEPT !.greeted = @ \cup {u}]
            IN /\ data' = store
               /\ persist' = flush(persist, store, io)
               /\ seen' = Wrote("mark_greeted", u, io)
               /\ welcome' = [welcome EXCEPT ![u].pending = @ + 1]
       ELSE UNCHANGED <<data, persist, seen, welcome>>
    /\ ops' = ops + 1
    /\ sent' = NoSent
    /\ UNCHANGED <<chat_vars, jobs, flow, view, cache, http, listed>>

\* user.send(embed=embed) of a waiting on_interaction call ends: the DM is
\* delivered, or the exception is printed; the call is over either way.
WelcomeDM(u, dm) ==
    /\ welcome[u].pending > 0
    /\ welcome' = [welcome EXCEPT ![u] =
                      [pending |-> @.pending - 1, tried |-> @.tried + 1,
                       delivered |-> @.delivered + (IF dm = "ok" THEN 1 ELSE 0)]]
    /\ sent' = IF dm = "ok" THEN Sent(u, "embed", WelcomeText)
               ELSE [NoSent EXCEPT !.printed = dm]
    /\ UNCHANGED <<chat_vars, ops, seen, data, persist, jobs, flow, view, cache, http, listed>>

NextGreet ==
    \/ \E u \in Users, io \in FlushIO : OnInteraction(u, io)
    \/ \E u \in Users, dm \in SendIO : WelcomeDM(u, dm)

SpecGreet == InitBot /\ [][NextGreet]_vars

\* ------------------------------------------------------------------------
\* Specification of the scheduler (source/scheduler.py): the started
\* AsyncIOScheduler keeps its jobs by id; setup_user_schedule and
\* remove_user_schedule are called with times and timezones of any shape.
\* ------------------------------------------------------------------------

RECURSIVE Split(_)
\* time.split(':'): the parts of a string between its colons.
Split(s) ==
    IF \E i \in 1..Len(s) : SubSeq(s, i, i) = ":"
    THEN LET i == CHOOSE i \in 1..Len(s) :
                      SubSeq(s, i, i) = ":" /\ \A j \in 1..(i - 1) : SubSeq(s, j, j) # ":"
         IN <<SubSeq(s, 1, i - 1)>> \o Split(SubSeq(s, i + 1, Len(s)))
    ELSE <<s>>

Digits == <<"0", "1", "2", "3", "4", "5", "6", "7", "8", "9">>

IsDigit(c) == \E d \in 1..10 : Digits[d] = c

DigitOf(c) == (CHOOSE d \in 1..10 : Digits[d] = c) - 1

\* int(s) accepts s: a non-empty string of decimal digits (signs, blanks
\* and underscores, which int also accepts, are not among the inputs).
IsInt(s) == Len(s) > 0 /\ \A i \in 1..Len(s) : IsDigit(SubSeq(s, i, i))

RECURSIVE ToInt(_)
\* int(s) of a string of digits.
ToInt(s) ==
    IF Len(s) = 0 THEN 0
    ELSE 10 * ToInt(SubSeq(s, 1, Len(s) - 1)) + DigitOf(SubSeq(s, Len(s), Len(s)))

\* hour, minute = map(int, time.split(':')): ValueError unless there are
\* exactly two parts and int accepts both.
ParseTime(time) ==
    LET parts == Split(time)
    IN IF Len(parts) = 2 /\ IsInt(parts[1]) /\ IsInt(parts[2])
       THEN [ok |-> TRUE, hour |-> ToInt(parts[1]), minute |-> ToInt(parts[2])]
       ELSE [ok |-> FALSE, hour |-> 0, minute |-> 0]

\* The zones pytz.timezone knows, among those that are tried.
PytzTimezones == {"America/New_York", "Asia/Tokyo"}

\* CronTrigger(hour=, minute=, timezone=) accepts the fields.
TriggerOk(hour, minute) == hour \in 0..23 /\ minute \in 0..59

\* Mutant of job_id: one id for every user.
job_id_shared(user_id) == "daily_verse"

\* job_id = f"daily_verse_{user_id}"
job_id(user_id) == "daily_verse_" \o user_id

\* scheduler.get_job(job_id), as the truth value the code tests.
get_job(js, id) == \E j \in js : j.id = id

\* scheduler.remove_job(job_id)
remove_job(js, id) == {j \in js : j.id # id}

\* scheduler.add_job(..., id=job_id, replace_existing=True)
add_job(js, job) == {j \in js : j.id # job.id} \cup {job}

\* What setup_user_schedule returns and the jobs it leaves.
ScheduleResult(ok, js) == [ok |-> ok, jobs |-> js]

\* Mutant of setup_user_schedule: the old job is removed before the time
\* and the timezone are looked at.
setup_user_schedule_remove_first(js, user_id, time, timezone) ==
    LET parsed == ParseTime(time)
        cleared == remove_job(js, job_id(user_id))
    IN IF ~parsed.ok \/ timezone \notin PytzTimezones \/ ~TriggerOk(parsed.hour, parsed.minute)
       THEN ScheduleResult(FALSE, cleared)
       ELSE ScheduleResult(TRUE,
                add_job(cleared,
                        [id |-> job_id(user_id), args |-> user_id, hour |-> parsed.hour,
                         minute |-> parsed.minute, timezone |-> timezone]))

\* setup_user_schedule: parse the time, build the timezone and the
\* trigger (any exception: print, return False), then remove the user's
\* job if there is one and add the new job.
setup_user_schedule(js, user_id, time, timezone) ==
    LET parsed == ParseTime(time)
    IN IF ~parsed.ok \/ timezone \notin PytzTimezones \/ ~TriggerOk(parsed.hour, parsed.minute)
       THEN ScheduleResult(FALSE, js)
       ELSE LET id == job_id(user_id)
                cleared == IF get_job(js, id) THEN remove_job(js, id) ELSE js
            IN ScheduleResult(TRUE,
                   add_job(cleared,
                           [id |-> id, args |-> user_id, hour |-> parsed.hour,
                            minute |-> parsed.minute, timezone |-> timezone]))

\* remove_user_schedule: True when a job was there and was removed.
remove_user_schedule(js, user_id) ==
    LET id == job_id(user_id)
    IN IF get_job(js, id) THEN ScheduleResult(TRUE, remove_job(js, id))
       ELSE ScheduleResult(FALSE, js)

\* What a scheduler call leaves in seen: the call, whether its except
\* clause ran, and 1 for a returned True, 0 for False.
Scheduled(op, u, result, raised) ==
    [NoSeen EXCEPT !.op = op, !.user_id = u, !.raised = raised,
                   !.count = IF result.ok THEN 1 ELSE 0]

\* Times and timezones the callers pass.
TimeInputs == {"08:00", "06:30", "8", "ab:cd", "08:00:00", "25:00"}

TimezoneInputs == {"America/New_York", "Asia/Tokyo", "Mars/Phobos"}

SetupUserSchedule(u, time, timezone) ==
    /\ ops < MaxInteractions
    /\ LET result == setup_user_schedule(jobs, u, time, timezone)
       IN /\ jobs' = result.jobs
          /\ seen' = Scheduled("setup_user_schedule", u, result, ~result.ok)
    /\ ops' = ops + 1
    /\ sent' = NoSent
    /\ UNCHANGED <<chat_vars, data, persist, welcome, flow, view, cache, http, listed>>

RemoveUserSchedule(u) ==
    /\ ops < MaxInteractions
    /\ LET result == remove_user_schedule(jobs, u)
       IN /\ jobs' = result.jobs
          /\ seen' = Scheduled("remove_user_schedule", u, result, FALSE)
    /\ ops' = ops + 1
    /\ sent' = NoSent
    /\ UNCHANGED <<chat_vars, data, persist, welcome, flow, view, cache, http, listed>>

NextSched ==
    \/ \E u \in Users, time \in TimeInputs, timezone \in TimezoneInputs :
          SetupUserSchedule(u, time, timezone)
    \/ \E u \in Users : RemoveUserSchedule(u)

SpecSched == InitBot /\ [][NextSched]_vars

\* ------------------------------------------------------------------------
\* interactive_ui.py: PaginatedView
\* ------------------------------------------------------------------------

\* math.ceil(n / d) for a length n and a positive page size d.
Ceil(n, d) == (n + d - 1) \div d

\* PaginatedView.__init__: the view opens on page 0.
PaginatedView(items, items_per_page) ==
    [items |-> items, items_per_page |-> items_per_page, current_page |-> 0,
     total_pages |-> Ceil(Len(items), items_per_page)]

\* items[start:end]: a slice stops at the end of the list.
Slice(items, start, end) ==
    SubSeq(items, start + 1, IF end <= Len(items) THEN end ELSE Len(items))

\* get_page_items
get_page_items(v) ==
    LET start == v.current_page * v.items_per_page
        end == start + v.items_per_page
    IN Slice(v.items, start, end)

\* previous_page: the page changes only when there is one before it.
previous_page(v) ==
    IF v.current_page > 0 THEN [v EXCEPT !.current_page = @ - 1] ELSE v

\* Variant of next_page whose test lets the last page be left.
next_page_past_end(v) ==
    IF v.current_page < v.total_pages THEN [v EXCEPT !.current_page = @ + 1] ELSE v

\* next_page: the page changes only when there is one after it.
next_page(v) ==
    IF v.current_page < v.total_pages - 1 THEN [v EXCEPT !.current_page = @ + 1] ELSE v

\* BibleVersionView has 6 items per page, TimeSelectionView 5.
PageSizes == {5, 6}

\* A view is built over a list of n items.
OpenView(n, items_per_page) ==
    /\ view' = PaginatedView([i \in 1..n |-> i], items_per_page)
    /\ UNCHANGED <<chat_vars, ops, seen, sent, data, persist, welcome, jobs, flow,
                   cache, http, listed>>

\* A click on the previous-page button of the view.
PreviousPage ==
    /\ view # NoView
    /\ view' = previous_page(view)
    /\ UNCHANGED <<chat_vars, ops, seen, sent, data, persist, welcome, jobs, flow,
                   cache, http, listed>>

\* A click on the next-page button of the view.
NextPage ==
    /\ view # NoView
    /\ view' = next_page(view)
    /\ UNCHANGED <<chat_vars, ops, seen, sent, data, persist, welcome, jobs, flow,
                   cache, http, listed>>

NextPages ==
    \/ \E n \in 0..MaxItems, items_per_page \in PageSizes : OpenView(n, items_per_page)
    \/ PreviousPage
    \/ NextPage

SpecPages == InitBot /\ [][NextPages]_vars

\* ------------------------------------------------------------------------
\* bot.py: the scheduled daily verse
\* ------------------------------------------------------------------------

\* The scheduler runs job j: send_daily_verse(user_id) with the job's args.
RunJob(j, fetched, found, dm) ==
    /\ j \in jobs
    /\ ops < MaxInteractions
    /\ LET result == send_daily_verse(data, j.args, fetched, found, dm)
       IN /\ sent' = result.message
          /\ seen' = Daily(j.args, result)
    /\ ops' = ops + 1
    /\ UNCHANGED <<chat_vars, data, persist, setup_vars>>

\* Settings are saved, jobs are set up with the stored time and timezone,
\* and the scheduler runs the jobs.
NextDaily ==
    \/ \E u \in Users, version \in BibleVersions, io \in FlushIO : SaveUserSettings(u, version, io)
    \/ \E u \in Users : SetupUserSchedule(u, ScheduledTime, Timezone)
    \/ \E j \in jobs, fetched \in BOOLEAN, found \in FetchUserIO, dm \in SendIO :
          RunJob(j, fetched, found, dm)

SpecDaily == InitBot /\ [][NextDaily]_vars

\* ------------------------------------------------------------------------
\* bible_api.py: the list of Bible versions
\* ------------------------------------------------------------------------

\* A Bible as GET /v1/bibles lists it: its id, its name and the id of its
\* language.
Bible(id, name, language) == [id |-> id, name |-> name, language |-> language]

\* The Bibles the API may list, in the order it lists them: English ones
\* that match a priority keyword, two that share an id, one whose name is
\* in capitals, a Spanish one whose name holds a keyword, and English ones
\* that match no keyword.
Catalogue ==
    << Bible("asv", "American Standard Version", "eng"),
       Bible("niv", "New International Version", "eng"),
       Bible("kjv", "King James (Authorised) Version", "eng"),
       Bible("rvg", "Reina Valera King James", "spa"),
       Bible("web", "World English Bible", "eng"),
       Bible("kjv", "KING JAMES VERSION 1611", "eng"),
       Bible("dby", "Darby Translation", "eng"),
       Bible("gnv", "Geneva Bible", "eng"),
       Bible("bbe", "Bible in Basic English", "eng"),
       Bible("wbs", "Webster Bible", "eng"),
       Bible("akjv", "American King James Version", "eng") >>

\* The items of s at the positions in S, in the order of s.
RECURSIVE Pick(_, _, _)
Pick(s, S, i) ==
    IF i > Len(s) THEN <<>>
    ELSE (IF i \in S THEN <<s[i]>> ELSE <<>>) \o Pick(s, S, i + 1)

\* What the request for the list of Bibles gives: an exception (time-out,
\* HTTP error status, a body that is no JSON object), or the list under
\* "data", which may be empty.
FetchFailed == [ok |-> FALSE, versions |-> <<>>]

Fetched(versions) == [ok |-> TRUE, versions |-> versions]

Responses == {FetchFailed} \cup {Fetched(Pick(Catalogue, S, 1)) : S \in SUBSET (1..Len(Catalogue))}

\* What a get_bible_versions call did: the cache after it, the list it
\* returned and the number of HTTP requests it made.
VersionsResult(c, versions, requests) == [cache |-> c, versions |-> versions, requests |-> requests]

\* Variant of get_bible_versions that caches the empty list of a failed
\* fetch.
get_bible_versions_caches_failure(c, response) ==
    IF c.set THEN VersionsResult(c, c.versions, 0)
    ELSE IF response.ok
         THEN VersionsResult([set |-> TRUE, versions |-> response.versions], response.versions, 1)
         ELSE VersionsResult([set |-> TRUE, versions |-> <<>>], <<>>, 1)

\* get_bible_versions: the cached list when there is one; otherwise one
\* request, whose list is cached and returned, or [] when it fails.
get_bible_versions(c, response) ==
    IF c.set THEN VersionsResult(c, c.versions, 0)
    ELSE IF response.ok
         THEN VersionsResult([set |-> TRUE, versions |-> response.versions], response.versions, 1)
         ELSE VersionsResult(c, <<>>, 1)

\* str.lower() on the letters of the names and keywords.
LowerOf ==
    [c \in {"A", "B", "C", "D", "E", "F", "G", "H", "I", "J", "K", "L", "M", "N", "O",
            "P", "Q", "R", "S", "T", "U", "V", "W", "X", "Y", "Z"} |->
        CASE c = "A" -> "a" [] c = "B" -> "b" [] c = "C" -> "c" [] c = "D" -> "d"
          [] c = "E" -> "e" [] c = "F" -> "f" [] c = "G" -> "g" [] c = "H" -> "h"
          [] c = "I" -> "i" [] c = "J" -> "j" [] c = "K" -> "k" [] c = "L" -> "l"
          [] c = "M" -> "m" [] c = "N" -> "n" [] c = "O" -> "o" [] c = "P" -> "p"
          [] c = "Q" -> "q" [] c = "R" -> "r" [] c = "S" -> "s" [] c = "T" -> "t"
          [] c = "U" -> "u" [] c = "V" -> "v" [] c = "W" -> "w" [] c = "X" -> "x"
          [] c = "Y" -> "y" [] c = "Z" -> "z"]

RECURSIVE lower(_)
lower(s) ==
    IF s = "" THEN ""
    ELSE LET c == SubSeq(s, 1, 1)
         IN (IF c \in DOMAIN LowerOf THEN LowerOf[c] ELSE c) \o lower(SubSeq(s, 2, Len(s)))

\* keyword in name
IsIn(keyword, name) ==
    \E i \in 1..(Len(name) - Len(keyword) + 1) : SubSeq(name, i, i + Len(keyword) - 1) = keyword

priority_keywords ==
    << "King James", "World English", "Bible in Basic English", "Webster",
       "American Standard", "Darby" >>

\* keyword.lower() in name, for each name of the catalogue lower-cased and
\* each priority keyword: worked out once for all calls.
MatchTable ==
    [name \in {Catalogue[i].name : i \in 1..Len(Catalogue)} |->
        [k \in 1..Len(priority_keywords) |-> IsIn(lower(priority_keywords[k]), lower(name))]]

Matches(version, k) == MatchTable[version.name][k]

\* The ids in seen_ids once the versions of prioritized were added.
seen_ids(prioritized) == {prioritized[i].id : i \in 1..Len(prioritized)}

\* [v for v in all_versions if v['language']['id'] == 'eng']
RECURSIVE english_versions(_)
english_versions(all_versions) ==
    IF all_versions = <<>> THEN <<>>
    ELSE (IF all_versions[1].language = "eng" THEN <<all_versions[1]>> ELSE <<>>)
         \o english_versions(SubSeq(all_versions, 2, Len(all_versions)))

\* First pass: for each keyword in order, each English version whose name
\* holds it and whose id was not taken, until there are 6.
RECURSIVE FirstPass(_, _, _, _)
FirstPass(english, k, i, prioritized) ==
    IF Len(prioritized) >= 6 \/ k > Len(priority_keywords) THEN prioritized
    ELSE IF i > Len(english) THEN FirstPass(english, k + 1, 1, prioritized)
    ELSE FirstPass(english, k, i + 1,
                   IF /\ english[i].id \notin seen_ids(prioritized)
                      /\ Matches(english[i], k)
                   THEN Append(prioritized, english[i])
                   ELSE prioritized)

\* Second pass: the English versions whose id was not taken, until there
\* are 6.
RECURSIVE SecondPass(_, _, _)
SecondPass(english, i, prioritized) ==
    IF Len(prioritized) >= 6 \/ i > Len(english) THEN prioritized
    ELSE SecondPass(english, i + 1,
                    IF english[i].id \notin seen_ids(prioritized)
                    THEN Append(prioritized, english[i])
                    ELSE prioritized)

\* prioritized[:6]
FirstSix(prioritized) == SubSeq(prioritized, 1, IF Len(prioritized) < 6 THEN Len(prioritized) ELSE 6)

\* Variant of get_common_english_versions that fills up with other English
\* versions whenever there are fewer than 6.
get_common_english_versions_fill_to_six(all_versions) ==
    LET english == english_versions(all_versions)
        prioritized == FirstPass(english, 1, 1, <<>>)
    IN FirstSix(IF Len(prioritized) < 6 THEN SecondPass(english, 1, prioritized)
                ELSE prioritized)

\* get_common_english_versions, over the list get_bible_versions returned.
get_common_english_versions(all_versions) ==
    LET english == english_versions(all_versions)
        prioritized == FirstPass(english, 1, 1, <<>>)
    IN FirstSix(IF Len(prioritized) < 4 THEN SecondPass(english, 1, prioritized)
                ELSE prioritized)

\* What a call for the version list leaves in seen: the call, the number
\* of HTTP requests it made and whether the except clause ran.
Listed(op, c, response, result) ==
    [NoSeen EXCEPT !.op = op, !.count = result.requests,
                   !.raised = (~c.set /\ ~response.ok)]

\* A call of get_bible_versions().
GetBibleVersions(response) ==
    /\ ops < MaxInteractions
    /\ LET result == get_bible_versions(cache, response)
       IN /\ cache' = result.cache
          /\ http' = http + result.requests
          /\ listed' = result.versions
          /\ seen' = Listed("get_bible_versions", cache, response, result)
    /\ ops' = ops + 1
    /\ UNCHANGED <<chat_vars, sent, data, persist, welcome, jobs, flow, view>>

\* A call of get_common_english_versions().
GetCommonEnglishVersions(response) ==
    /\ ops < MaxInteractions
    /\ LET result == get_bible_versions(cache, response)
       IN /\ cache' = result.cache
          /\ http' = http + result.requests
          /\ listed' = get_common_english_versions(result.versions)
          /\ seen' = Listed("get_common_english_versions", cache, response, result)
    /\ ops' = ops + 1
    /\ UNCHANGED <<chat_vars, sent, data, persist, welcome, jobs, flow, view>>

\* The calls are made with the cache set, when no request goes out, and
\* with the cache unset, when the request has one of the responses.
NextVersions ==
    \/ cache.set /\ GetBibleVersions(FetchFailed)
    \/ ~cache.set /\ \E response \in Responses : GetBibleVersions(response)
    \/ cache.set /\ GetCommonEnglishVersions(FetchFailed)
    \/ ~cache.set /\ \E response \in Responses : GetCommonEnglishVersions(response)

SpecVersions == InitBot /\ [][NextVersions]_vars

\* ------------------------------------------------------------------------
\* bot.py: the /setup flow
\* ------------------------------------------------------------------------

TIME_SLOTS ==
    << "06:00", "06:30", "07:00", "07:30", "08:00", "08:30",
       "09:00", "09:30", "10:00", "10:30", "11:00" >>

\* The timezone buttons and the time buttons that are clicked: two of
\* COMMON_TIMEZONES, and the first and the last of TIME_SLOTS.
TimezoneClicks == {"America/New_York", "Asia/Tokyo"}

TimeClicks == {"06:00", "11:00"}

\* What the list request of a /setup gives: a failure, or two versions.
SetupResponses == {FetchFailed, Fetched(Pick(Catalogue, {1, 3}, 1))}

FetchErrorText == "Could not fetch Bible versions. Please try again later."

SaveErrorText == "Failed to save your settings. Please try again."

CompleteText == "Your daily Bible verse has been configured successfully!"

CancelledText == "Setup process has been cancelled."

\* The views of a session that take clicks, and the ways a session ends.
OpenViews == {"version", "timezone", "time", "confirm"}

\* SetupState(user_id) with the version view shown.
SetupState(user_id) ==
    [NoFlow EXCEPT !.user_id = user_id, !.view = "version", !.shown = <<"version">>]

\* The session shows another view.
Show(state, v) == [state EXCEPT !.view = v, !.shown = Append(@, v)]

\* Variant of on_version_selected that goes on to the time view.
on_version_selected_skips_timezone(state, version) ==
    Show([state EXCEPT !.bible_version = version.id], "time")

\* on_version_selected: the version's id is kept and the timezone view
\* shown.
on_version_selected(state, version) ==
    Show([state EXCEPT !.bible_version = version.id], "timezone")

\* on_timezone_selected: the timezone is kept and the time view shown.
on_timezone_selected(state, timezone) ==
    Show([state EXCEPT !.timezone = timezone], "time")

\* on_time_selected: the time is kept and the confirmation view shown.
on_time_selected(state, time_slot) ==
    Show([state EXCEPT !.time = time_slot], "confirm")

\* save_user_settings(user_id, bible_version, scheduled_time, timezone):
\* the store after the assignment, whatever _flush does.
Saved_settings(store, user_id, bible_version, scheduled_time, timezone) ==
    [store EXCEPT !.users[user_id] =
        [bible_version |-> bible_version, scheduled_time |-> scheduled_time,
         timezone |-> timezone]]

\* /setup: the common English versions are fetched; without any the error
\* embed is sent, otherwise the version view is shown.
SetupCommand(u, response) ==
    /\ flow.view \notin OpenViews
    /\ ops < MaxOps
    /\ LET result == get_bible_versions(cache, response)
           versions == get_common_english_versions(result.versions)
       IN /\ cache' = result.cache
          /\ http' = http + result.requests
          /\ listed' = versions
          /\ IF versions = <<>>
             THEN /\ flow' = [NoFlow EXCEPT !.user_id = u, !.view = "error"]
                  /\ view' = NoView
                  /\ sent' = Sent(u, "embed", FetchErrorText)
             ELSE /\ flow' = SetupState(u)
                  /\ view' = PaginatedView(versions, 6)
                  /\ sent' = NoSent
    /\ ops' = ops + 1
    /\ seen' = NoSeen
    /\ UNCHANGED <<chat_vars, data, persist, welcome, jobs>>

\* A click on the button of a version of the page shown.
SelectVersion(n) ==
    /\ flow.view = "version"
    /\ n \in 1..Len(get_page_items(view))
    /\ flow' = on_version_selected(flow, get_page_items(view)[n])
    /\ view' = NoView
    /\ sent' = NoSent
    /\ UNCHANGED <<chat_vars, ops, seen, data, persist, welcome, jobs, cache, http, listed>>

\* A click on a timezone button.
SelectTimezone(timezone) ==
    /\ flow.view = "timezone"
    /\ flow' = on_timezone_selected(flow, timezone)
    /\ view' = PaginatedView(TIME_SLOTS, 5)
    /\ sent' = NoSent
    /\ UNCHANGED <<chat_vars, ops, seen, data, persist, welcome, jobs, cache, http, listed>>

\* A click on the button of a time slot of the page shown.
SelectTime(n) ==
    /\ flow.view = "time"
    /\ n \in 1..Len(get_page_items(view))
    /\ get_page_items(view)[n] \in TimeClicks
    /\ flow' = on_time_selected(flow, get_page_items(view)[n])
    /\ view' = NoView
    /\ sent' = NoSent
    /\ UNCHANGED <<chat_vars, ops, seen, data, persist, welcome, jobs, cache, http, listed>>

\* A click on Confirm: on_confirmation(inter, True) saves the settings of
\* the session; when that failed the error embed is shown and nothing is
\* scheduled, otherwise the user's job is set up.
Confirm(io) ==
    /\ flow.view = "confirm"
    /\ LET user_id == flow.user_id
           store == Saved_settings(data, user_id, flow.bible_version, flow.time, flow.timezone)
           success == io = "ok"
       IN /\ data' = store
          /\ persist' = flush(persist, store, io)
          /\ seen' = Wrote("save_user_settings", user_id, io)
          /\ IF ~success
             THEN /\ jobs' = jobs
                  /\ flow' = [flow EXCEPT !.view = "save_failed"]
                  /\ sent' = Sent(user_id, "embed", SaveErrorText)
             ELSE /\ jobs' = setup_user_schedule(jobs, user_id, flow.time, flow.timezone).jobs
                  /\ flow' = [flow EXCEPT !.view = "done"]
                  /\ sent' = Sent(user_id, "embed", CompleteText)
    /\ UNCHANGED <<chat_vars, ops, welcome, view, cache, http, listed>>

\* A click on Cancel in any of the four views.
Cancel ==
    /\ flow.view \in OpenViews
    /\ flow' = [flow EXCEPT !.view = "cancelled"]
    /\ view' = NoView
    /\ sent' = Sent(flow.user_id, "embed", CancelledText)
    /\ UNCHANGED <<chat_vars, ops, seen, data, persist, welcome, jobs, cache, http, listed>>

\* The view shown got no click for 180 seconds: its buttons are disabled.
Timeout ==
    /\ flow.view \in OpenViews
    /\ flow' = [flow EXCEPT !.view = "timed_out"]
    /\ view' = NoView
    /\ sent' = NoSent
    /\ UNCHANGED <<chat_vars, ops, seen, data, persist, welcome, jobs, cache, http, listed>>

\* A page click in the version view or in the time view.
TurnPage ==
    /\ flow.view \in {"version", "time"}
    /\ PreviousPage \/ NextPage

NextSetup ==
    \/ \E u \in Users, response \in SetupResponses : SetupCommand(u, response)
    \/ \E n \in 1..6 : SelectVersion(n)
    \/ \E timezone \in TimezoneClicks : SelectTimezone(timezone)
    \/ \E n \in 1..5 : SelectTime(n)
    \/ \E io \in FlushIO : Confirm(io)
    \/ Cancel
    \/ Timeout
    \/ TurnPage

SpecSetup == InitBot /\ [][NextSetup]_vars

\* ------------------------------------------------------------------------
\* Claims
\* ------------------------------------------------------------------------

\* The user and task a formula speaks about.
Stored(u) == IF disk[u].state = "ok" THEN disk[u].record.messages ELSE <<>>

\* The last n elements of a sequence, written with indices.
LastN(seq, n) == [i \in 1..n |-> seq[Len(seq) - n + i]]

\* C1: after any sequence of chat, log_quote and reset operations the
\* persisted message list of a user holds at most MAX_HISTORY_MESSAGES (40)
\* turns, and so does what history(user) returns.
C1_HistoryWithinCap ==
    \A u \in Users :
        /\ Len(Stored(u)) <= 40
        /\ Len(history(u)) <= 40

\* C1 witness: a save has dropped turns and the user's history is at the cap.
C1_Witness ==
    \E u \in Users :
        /\ last_save.user_id = u
        /\ Len(last_save.messages) > 40
        /\ Len(history(u)) = 40

\* C2: when save_chat is given more than 40 messages, what it persists is
\* exactly the last 40 of them, in their order and unaltered.
C2_TruncationKeepsNewestSuffix ==
    Len(last_save.messages) > 40 =>
        history(last_save.user_id) = LastN(last_save.messages, 40)

\* C2 witness: a chat exchange on a full history pushed two turns out.
C2_Witness ==
    /\ Len(last_save.messages) = 42
    /\ disk[last_save.user_id].state = "ok"
    /\ \E t \in Tasks : task[t].pc = "returned" /\ calls.owner = t

\* All but the last element of a non-empty sequence.
Front(seq) == [i \in 1..(Len(seq) - 1) |-> seq[i]]

Min(a, b) == IF a <= b THEN a ELSE b

\* Task t's chat() call returns in this step.
Returns(t) == task[t].pc = "calling" /\ task'[t].pc = "returned"

\* Task t's chat() call fails in this step, with the exhaustion error or
\* with a propagated generation error.
Fails(t) == task[t].pc = "calling" /\ task'[t].pc = "raised"

\* C3: a chat call that returns a reply leaves the user's history as it was
\* before the call plus exactly one user turn (the message) followed by one
\* model turn (the returned reply), whatever failures, retries and fallbacks
\* the call went through; the oldest turns make room when the cap is hit.
C3_ReturnAddsOneExchange ==
    [][\A t \in Tasks : Returns(t) =>
        LET old == history(task[t].user)
            new == history(task[t].user)'
            k == Len(new)
        IN /\ k = Min(Len(old) + 2, 40)
           /\ new[k - 1].role = "user" /\ new[k - 1].content = task[t].msg
           /\ new[k].role = "model" /\ new[k].content = task'[t].reply_text
           /\ [i \in 1..(k - 2) |-> new[i]] = LastN(old, k - 2)]_vars

\* C3 witness: two transient failures, then success on the primary model; the
\* history of a user who had none holds one user turn and one model turn.
C3_Witness ==
    \E t \in Tasks :
        /\ task[t].pc = "returned"
        /\ calls.owner = t
        /\ Len(calls.events) = 5
        /\ calls.events[1].result = "retryable"
        /\ calls.events[3].result = "retryable"
        /\ calls.events[5].result = "ok" /\ calls.events[5].model = DEFAULT_MODEL
        /\ Len(history(task[t].user)) = 2
        /\ history(task[t].user)[1].role = "user"
        /\ history(task[t].user)[2].role = "model"

\* C4 (as claimed): when chat fails, with the exhaustion error or a
\* propagated error, the user turn it appended is the last turn of
\* history(user) afterwards.
C4_FailedChatKeepsUserTurn ==
    [][\A t \in Tasks : Fails(t) =>
        LET new == history(task[t].user)'
        IN /\ Len(new) > 0
           /\ new[Len(new)].role = "user"
           /\ new[Len(new)].content = task[t].msg]_vars

\* C10: chat calls for one user do not interleave: while a call is between
\* its load and its save, what is stored for the user is still what the call
\* loaded, and no second call for that user is between load and save; so the
\* save of each call keeps every turn the other one stored.
C10_NoInterleaving ==
    \A t \in Tasks : task[t].pc = "calling" =>
        /\ Front(task[t].record.messages) = history(task[t].user)
        /\ \A t2 \in Tasks \ {t} :
              ~(task[t2].pc = "calling" /\ task[t2].user = task[t].user)

\* C10 witness: two chat commands of one user are in flight together, one
\* inside chat() and the other waiting for the event loop.
C10_Witness ==
    \E t1, t2 \in Tasks :
        /\ t1 # t2
        /\ task[t1].user = task[t2].user
        /\ task[t1].pc = "calling"
        /\ task[t2].pc = "deferred"

\* ---- the generation calls of one chat() call ----

E == calls.events

\* The task whose chat() call made the calls.
Owner == task[calls.owner]

CallIdx == {i \in 1..Len(E) : E[i].ev = "call"}

CallsTo(m) == {i \in CallIdx : E[i].model = m}

\* Call i is the n-th call to its model.
NthOnModel(i) == Cardinality({j \in CallsTo(E[i].model) : j <= i})

\* Call i made chat give up on its model: a rate-limit failure, or the
\* third network failure on that model.
Abandons(i) ==
    \/ E[i].result = "rate_limit"
    \/ E[i].result = "retryable" /\ NthOnModel(i) = 3

LastCallTo(m) == CHOOSE i \in CallsTo(m) : \A j \in CallsTo(m) : j <= i

C6_AtMostThreeAttemptsPerModel ==
    /\ \A i \in CallIdx : Cardinality(CallsTo(E[i].model)) <= 3
    /\ \A i \in CallIdx : E[i].result = "retryable" =>
          IF NthOnModel(i) < 3
          THEN /\ i < Len(E) /\ E[i + 1].ev = "sleep"
               /\ IF i + 1 < Len(E)
                  THEN E[i + 2].ev = "call" /\ E[i + 2].model = E[i].model
                  ELSE Owner.pc = "calling" /\ CurrentModel(calls.owner) = E[i].model
          ELSE i < Len(E) =>
                  /\ E[i + 1].ev = "call"
                  /\ E[i].model = manager
                  /\ E[i + 1].model = FALLBACK_MODEL

\* C6 witness: three network failures on the primary, then a call to the
\* fallback.
C6_Witness ==
    /\ Len(E) = 6
    /\ \A i \in {1, 3, 5} : E[i].result = "retryable" /\ E[i].model = DEFAULT_MODEL
    /\ E[6].ev = "call" /\ E[6].model = FALLBACK_MODEL

\* C7: a failure that is neither a network failure nor a rate-limit failure
\* ends the chat call at once: it is the last event (no later call, no
\* sleep), and chat raises that very error, not the exhaustion error.
C7_OtherErrorsPropagate ==
    \A i \in CallIdx : E[i].result = "other" =>
        /\ i = Len(E)
        /\ Owner.pc = "raised"
        /\ calls.raised = E[i].err
        /\ calls.raised \in Errors
        /\ calls.raised # RateLimitError

\* C7 witness: the first call fails with a 400 client error without a
\* quota or rate keyword.
C7_Witness ==
    /\ Len(E) = 1
    /\ E[1].result = "other"
    /\ E[1].err = [cls |-> "ClientError", code |-> 400, words |-> {}]
    /\ Owner.pc = "raised"

\* Every model of the list was called and given up, and none replied.
AllAbandoned ==
    /\ \A m \in {manager, FALLBACK_MODEL} : CallsTo(m) # {} /\ Abandons(LastCallTo(m))
    /\ \A i \in CallIdx : E[i].result # "ok"

\* C8: chat raises RateLimitError exactly when every model was tried and
\* given up without a reply: never while a model is untried, and then it
\* never returns normally.
C8_ExhaustionIffAllAbandoned ==
    calls.owner \in Tasks =>
        ((Owner.pc = "raised" /\ calls.raised = RateLimitError) <=> AllAbandoned)

\* C8 witness: the primary is rate-limited, the fallback fails three times
\* on the network, and chat raises RateLimitError.
C8_Witness ==
    /\ calls.owner \in Tasks
    /\ Owner.pc = "raised" /\ calls.raised = RateLimitError
    /\ E[1].result = "rate_limit"
    /\ Len(E) = 6 /\ E[6].result = "retryable" /\ E[6].model = FALLBACK_MODEL

\* C9: the models are called in preference order: the first call goes to the
\* primary, a call to the fallback comes only right after the call that made
\* chat give up the primary, and no call to the primary follows one to the
\* fallback.
C9_ModelsInPreferenceOrder ==
    /\ Len(E) > 0 => E[1].ev = "call" /\ E[1].model = manager
    /\ \A j \in CallIdx : E[j].model = FALLBACK_MODEL =>
          /\ \E i \in CallsTo(manager) : i < j /\ Abandons(i)
          /\ \A k \in CallIdx : k > j => E[k].model # manager

\* C9 witness: the fallback is called after the primary and fails for good.
C9_Witness ==
    /\ Len(E) > 1
    /\ E[1].model = DEFAULT_MODEL
    /\ E[Len(E)].model = FALLBACK_MODEL /\ E[Len(E)].result = "other"

\* ---- concurrency between users ----

\* C11 (as claimed): while one user's chat call is waiting for a generation
\* call or sleeping before a retry, the chat command of another user that is
\* ready to enter chat() can do so.
C11_OtherUserCanStart ==
    \A t, t2 \in Tasks :
        (/\ task[t].pc = "calling"
         /\ task[t2].pc = "deferred"
         /\ task[t2].user # task[t].user)
            => ENABLED ChatStart(t2)

\* ---- the store between its file-system calls ----

\* A record has the four keys of a conversation record.
WellFormed(value) ==
    {"user_id", "created_at", "updated_at", "messages"} \subseteq DOMAIN value

\* The file holds a conversation record.
HoldsRecord(file) == file.state = "ok" /\ WellFormed(file.record)

\* C12 (as claimed): a load that reads the file of a user who has a stored
\* record, while a save of that user's record has the file open, returns
\* the record stored before the save or the record being saved.
C12_LoadSeesOldOrNew ==
    [][\A u \in Users :
        (/\ Load(u, "ok")
         /\ writing # NoWrite /\ writing.user_id = u
         /\ HoldsRecord(writing.before)) =>
            seen'.record \in {load_chat(writing.before, u, now),
                              StampAndTrim(writing.record, now)}]_vars

\* C13 (as claimed): when json.dump fails after open(path, "w") on the file
\* of a user who has a stored record, a later load returns the record that
\* was stored before the save.
C13_FailedSaveKeepsPrevious ==
    [][(SaveDump("write_fails") /\ HoldsRecord(writing.before)) =>
        LET u == writing.user_id
        IN load_chat(disk'[chat_path(u)], u, now) = load_chat(writing.before, u, now)]_vars

\* C14 (as claimed): load never raises and returns a well-formed record: the
\* stored one when the file can be read and holds a well-formed record,
\* otherwise a fresh record of the user with no messages.
C14_LoadReturnsWellFormedRecord ==
    [][\A u \in Users, io \in ReadIO : Load(u, io) =>
        LET file == disk[chat_path(u)]
            value == seen'.record
        IN /\ ~seen'.raised
           /\ WellFormed(value)
           /\ IF io = "ok" /\ HoldsRecord(file)
              THEN value = file.record
              ELSE value = FreshRecord(u, now)]_vars

\* reset(u) runs in this step: the manager exists and clear_chat is called.
Resets(u, io) == ClearChat(u, io) /\ manager' # "none"

\* C15 (as claimed): after reset(user), history(user) is empty, whatever was
\* stored and whether or not os.remove succeeded.
C15_ResetEmptiesHistory ==
    [][\A u \in Users, io \in RemoveIO : Resets(u, io) => history(u)' = <<>>]_vars

\* C16: clear is idempotent: on a user without a file it changes nothing on
\* disk; after a clear, a second clear with the same outcome of os.remove
\* changes nothing; a clear whose removal succeeds leaves no file.
C16_ClearIdempotent ==
    [][\A u \in Users, io \in RemoveIO : Resets(u, io) =>
        LET path == chat_path(u)
        IN /\ disk[path].state = "absent" => disk' = disk
           /\ clear_chat(disk'[path], io) = disk'[path]
           /\ io = "ok" => disk'[path] = AbsentFile
           /\ \A v \in Users \ {u} : disk'[v] = disk[v]]_vars

\* C16 witness: reset has run, nothing else has touched the store since, and
\* the user has no file.
C16_Witness ==
    /\ manager # "none"
    /\ ops >= 2
    /\ seen.op = "none"
    /\ writing = NoWrite /\ last_save = NoSave
    /\ disk["u1"] = AbsentFile

\* ---- log_quote, the reads and the other users' records ----

\* An element of the sequence is x.
Contains(seq, x) == \E i \in 1..Len(seq) : seq[i] = x

\* C17: log_quote for a user without a stored record creates a record of
\* that user whose messages hold exactly one turn: role model, event_type
\* verse_delivery, a content that holds the reference and the text, and a
\* meta with the given reference, version and source.
C17_LogQuoteCreatesOneTurn ==
    [][\A u \in Users, source \in Sources :
        (LogQuote(u, source, "ok") /\ disk[chat_path(u)].state = "absent") =>
            LET file == disk'[chat_path(u)]
                turn == file.record.messages[1]
            IN /\ file.state = "ok"
               /\ file.record.user_id = u
               /\ Len(file.record.messages) = 1
               /\ turn.role = "model"
               /\ turn.event_type = "verse_delivery"
               /\ Contains(turn.content, VerseRef) /\ Contains(turn.content, VerseText)
               /\ turn.meta = [reference |-> VerseRef, version |-> VerseVersion,
                               source |-> source]]_vars

\* C17 witness: the stored history of a user is one verse entry of the
\* daily delivery, written by the last save.
C17_Witness ==
    /\ last_save.user_id = "u1"
    /\ Len(last_save.messages) = 1
    /\ Len(Stored("u1")) = 1
    /\ Stored("u1")[1].role = "model"
    /\ "meta" \in DOMAIN Stored("u1")[1]
    /\ Stored("u1")[1].meta.source = "daily"

\* C18: log_quote makes no generation call and starts no chat; it leaves the
\* user's history as it was plus the verse entry at the end, the earlier
\* turns unchanged and in order, the oldest one dropped when the history was
\* at the cap.
C18_LogQuoteAppendsOneTurn ==
    [][\A u \in Users, source \in Sources : LogQuote(u, source, "ok") =>
        LET old == history(u)
            new == history(u)'
            k == Len(new)
        IN /\ calls' = NoCalls
           /\ task' = task
           /\ k = Min(Len(old) + 1, 40)
           /\ new[k] = VerseTurn(VerseText, VerseRef, VerseVersion, source, now)
           /\ [i \in 1..(k - 1) |-> new[i]] = LastN(old, k - 1)]_vars

\* C18 witness: log_quote on a full history: 41 messages were saved, the
\* stored 40 end with the verse entry and begin with a model turn.
C18_Witness ==
    /\ last_save.user_id = "u1"
    /\ Len(last_save.messages) = 41
    /\ Len(Stored("u1")) = 40
    /\ "event_type" \in DOMAIN Stored("u1")[40]
    /\ Stored("u1")[1].role = "model"
    /\ calls = NoCalls

\* C19: load_chat, history and get_message_count change no file: every
\* user's file is after the call what it was before, a missing file stays
\* missing, and no save is started.
C19_ReadsChangeNothing ==
    [][\A u \in Users, io \in ReadIO :
        (Load(u, io) \/ History(u, io) \/ GetMessageCount(u, io)) =>
            /\ disk' = disk
            /\ writing' = writing
            /\ last_save' = last_save]_vars

\* C19 witness: get_message_count returned 0 for a user without a file, and
\* the user still has none.
C19_Witness ==
    /\ seen.op = "count" /\ seen.user_id = "u1" /\ ~seen.raised /\ seen.count = 0
    /\ disk["u1"] = AbsentFile

\* The step is an operation on the record of user u: the save at the end of
\* a chat of u, a log_quote for u or a reset of u.
WritesFor(u) ==
    \/ \E t \in Tasks : Returns(t) /\ task[t].user = u
    \/ \E source \in Sources : LogQuote(u, source, "ok")
    \/ ClearChat(u, "ok")

\* C20: a file changes only in an operation of the user it belongs to, a
\* chat loads the history of its own user, and the record stored in a
\* user's file is that user's record.
C20_OnlyOwnRecord ==
    [][/\ \A u \in Users : disk'[u] # disk[u] => WritesFor(u)
       /\ \A t \in Tasks : (task[t].pc = "deferred" /\ task'[t].pc = "calling") =>
             /\ task'[t].record.user_id = task[t].user
             /\ Front(task'[t].record.messages) = Stored(task[t].user)
       /\ \A u \in Users : disk'[u].state = "ok" => disk'[u].record.user_id = u]_vars

\* C20 witness: a chat of u2 has returned and stored its exchange while u1's
\* full history is as it was at start-up.
C20_Witness ==
    \E t \in Tasks :
        /\ task[t].pc = "returned" /\ task[t].user = "u2"
        /\ calls.owner = t
        /\ last_save.user_id = "u2"
        /\ Len(Stored("u2")) = 2
        /\ disk["u1"] = FileOf(PriorRecord("u1", 40))

\* The request payload for a message list, written out: role and text of
\* each message in list order.
Payload(messages) ==
    [i \in 1..Len(messages) |-> [role |-> messages[i].role, text |-> messages[i].content]]

\* Task t enters chat()'s model loop in this step.
Enters(t) == task[t].pc = "deferred" /\ task'[t].pc = "calling"

\* The generation calls among the events after this step.
NewCallIdx == {i \in 1..Len(calls'.events) : calls'.events[i].ev = "call"}

\* C21: the request payload is the user's stored turns in stored order
\* followed by the new human turn as its last element, and every generation
\* call of one chat call, whatever the attempt and the model, is made with
\* that same payload.
C21_SamePayloadForEveryCall ==
    [][\A t \in Tasks :
          /\ Enters(t) =>
                task'[t].contents =
                    Payload(Stored(task[t].user))
                        \o <<[role |-> "user", text |-> task[t].msg]>>
          /\ task[t].pc = "calling" =>
                /\ calls'.owner = t
                /\ \A i \in NewCallIdx : calls'.events[i].contents = task[t].contents
                /\ task'[t].pc = "calling" => task'[t].contents = task[t].contents]_vars

\* C21 witness: one chat call of a user with stored turns has called the
\* same model twice and then the other model, each time with the stored
\* turns and the new message.
C21_Witness ==
    /\ calls.owner # 0
    /\ Owner.pc = "returned"
    /\ \E i, j, k \in CallIdx :
          /\ i < j /\ j < k
          /\ E[i].model = E[j].model /\ E[j].model # E[k].model
          /\ Len(E[k].contents) = 41
          /\ E[k].contents[41].role = "user"
          /\ E[i].contents = E[k].contents

RECURSIVE SleptIn(_)
\* The seconds slept in a sequence of events.
SleptIn(events) ==
    IF events = <<>> THEN 0
    ELSE events[Len(events)].secs + SleptIn(Front(events))

\* Call i failed with a network error and was the first or second call to
\* its model.
EarlyTransient(i) == E[i].result = "retryable" /\ NthOnModel(i) < 3

\* C26: chat sleeps only between two consecutive attempts on one model
\* after a transient failure, 2 seconds after the first failed attempt and
\* 4 seconds after the second; nothing is slept after the third failed
\* attempt, a quota failure, a non-retryable failure or a success, so one
\* chat call sleeps at most 12 seconds.
C26_BackoffSleeps ==
    /\ \A i \in CallIdx :
          IF EarlyTransient(i)
          THEN /\ i < Len(E)
               /\ E[i + 1].ev = "sleep"
               /\ E[i + 1].secs = (IF NthOnModel(i) = 1 THEN 2 ELSE 4)
               /\ i + 1 < Len(E) => E[i + 2].ev = "call" /\ E[i + 2].model = E[i].model
               /\ i + 1 = Len(E) =>
                     Owner.pc = "calling" /\ models_to_try(manager)[Owner.mi] = E[i].model
          ELSE i < Len(E) => E[i + 1].ev = "call"
    /\ E # <<>> => E[1].ev = "call"
    /\ SleptIn(E) <= 12

\* C26 witness: a chat call failed three times on each model with network
\* errors and slept 2 + 4 + 2 + 4 seconds.
C26_Witness ==
    /\ calls.owner # 0
    /\ Owner.pc = "raised"
    /\ Cardinality(CallIdx) = 6
    /\ SleptIn(E) = 12

\* What str(e) can be for the exceptions chat_command catches.
Details == {Detail(e) : e \in Errors \cup {RateLimitError, RuntimeError}}

\* Task t's chat_command catches an exception in this step: chat raised,
\* or the manager could not be built.
Catches(t) == task[t].pc \in {"deferred", "calling"} /\ task'[t].pc = "raised"

\* C22: every failure of chat (exhaustion, a propagated generation error,
\* no manager) reaches the user of /chat as exactly one generic error
\* response that holds no detail of the exception; the detail is printed
\* only. The step that catches the exception prints it and sends nothing;
\* the only later step of the command sends the fixed embed and ends it.
C22_FailureGivesOneGenericError ==
    [][\A t \in Tasks :
          /\ Catches(t) =>
                /\ calls'.raised # NoError
                /\ sent'.printed = Detail(calls'.raised)
                /\ sent'.kind = "none"
          /\ (task[t].pc = "raised" /\ task'[t] # task[t]) =>
                /\ task'[t].pc = "idle"
                /\ sent'.user_id = task[t].user
                /\ sent'.kind = "embed"
                /\ sent'.content = ChatErrorText
                /\ sent'.content \notin Details
                /\ sent'.printed = ""]_vars

\* C22 witness: the generic error embed went out to a user whose chat call
\* failed in the generation service (the API key is set).
C22_Witness ==
    /\ api_key
    /\ sent.user_id = "u1"
    /\ sent.kind = "embed"
    /\ sent.content = ChatErrorText

\* Task t leaves chat() in this step.
Leaves(t) == task[t].pc = "calling" /\ task'[t].pc # "calling"

\* The three ways out of chat(), as the step that leaves it shows them.
ReturnsReply(t) ==
    /\ task'[t].pc = "returned"
    /\ task'[t].reply_text # None
    /\ calls'.raised = NoError

RaisesExhaustion(t) ==
    /\ task'[t].pc = "raised"
    /\ calls'.raised = RateLimitError

RaisesOther(t) ==
    /\ task'[t].pc = "raised"
    /\ calls'.raised \in Errors
    /\ ~IsRetryable(calls'.raised) /\ ~IsRateLimit(calls'.raised)

\* The number of the three ways out that a step takes.
WaysOut(t) ==
    (IF ReturnsReply(t) THEN 1 ELSE 0) + (IF RaisesExhaustion(t) THEN 1 ELSE 0)
        + (IF RaisesOther(t) THEN 1 ELSE 0)

\* C25: every chat call terminates, after at most 3 generation calls per
\* model (6 for the two models), in exactly one of three outcomes: a
\* returned reply, the exhaustion error, or a propagated non-retryable
\* error.
C25_ChatTerminatesThreeWays ==
    /\ [](/\ \A m \in {manager, FALLBACK_MODEL} : Cardinality(CallsTo(m)) <= 3
          /\ Cardinality(CallIdx) <= 6)
    /\ [][\A t \in Tasks : Leaves(t) => WaysOut(t) = 1]_vars
    /\ \A t \in Tasks :
          (task[t].pc = "calling") ~> (task[t].pc \in {"returned", "raised"})

\* C25 witness: a chat call has ended with the exhaustion error after six
\* generation calls, three to each model.
C25_Witness ==
    /\ calls.owner # 0
    /\ Owner.pc = "raised"
    /\ calls.raised = RateLimitError
    /\ Cardinality(CallIdx) = 6
    /\ \A m \in {manager, FALLBACK_MODEL} : Cardinality(CallsTo(m)) = 3

\* The turns alternate user, model, user, model ..., start with a user
\* turn and are even in number.
Alternates(messages) ==
    /\ Len(messages) % 2 = 0
    /\ \A i \in 1..Len(messages) :
          messages[i].role = (IF i % 2 = 1 THEN "user" ELSE "model")

\* C29: in a history that only chat and reset produce (no log_quote) the
\* persisted turns strictly alternate human, assistant, human, assistant,
\* start with a human turn and are even in number, also after failed chat
\* calls and after the cap has cut the list.
C29_ChatHistoryAlternates ==
    \A u \in Users : Alternates(Stored(u))

\* C29 witness: a save has cut the list to the cap and the stored turns
\* number 40.
C29_Witness ==
    \E u \in Users :
        /\ last_save.user_id = u
        /\ Len(last_save.messages) = 42
        /\ Len(Stored(u)) = 40
        /\ Stored(u)[1].role = "user"

\* C30: for every primary model a manager can be built with, the fallback
\* model's own name included, a model that chat gave up, after a quota
\* failure or after 3 transient failures, is not called again in the same
\* chat call.
C30_AbandonedModelNotCalledAgain ==
    \A i \in CallIdx :
        Abandons(i) => \A j \in CallIdx : j > i => E[j].model # E[i].model

\* The last element of a sequence.
Last(seq) == seq[Len(seq)]

\* C27: the text /chat sends never exceeds 2000 characters: a reply of at
\* most 2000 characters is sent unchanged, a longer one is cut to its first
\* 1997 characters followed by an ellipsis; chat itself returns and stores
\* the full reply.
C27_SentTextWithinLimit ==
    [][\A t \in Tasks :
          /\ Returns(t) =>
                /\ task'[t].reply_text = Last(calls'.events).text
                /\ Last(Stored(task[t].user)').content = Last(calls'.events).text
          /\ (task[t].pc = "returned" /\ task'[t] # task[t]) =>
                LET reply == task[t].reply_text
                    text == sent'.content
                IN /\ sent'.kind = "text"
                   /\ Len(text) <= 2000
                   /\ Len(reply) <= 2000 => text = reply
                   /\ Len(reply) > 2000 =>
                         /\ Len(text) = 1998
                         /\ SubSeq(text, 1, 1997) = SubSeq(reply, 1, 1997)
                         /\ SubSeq(text, 1998, 1998) = ELLIPSIS]_vars

\* C27 witness: a reply of 2005 characters is stored whole and what was
\* sent to the user has 1998 characters.
C27_Witness ==
    /\ sent.kind = "text"
    /\ Len(sent.content) = 1998
    /\ Stored(sent.user_id) # <<>>
    /\ Len(Last(Stored(sent.user_id)).content) = 2005

\* A save_chat has written user u's file in this step.
Saved(u) == disk'[u] # disk[u] /\ disk'[u].state = "ok"

\* C23: every save sets updated_at to the current time; a persisted record
\* has created_at <= updated_at; over successive saves of one existing
\* record created_at stays and updated_at never decreases (the clock never
\* goes back).
C23_TimestampsMonotonic ==
    /\ [](\A u \in Users :
             disk[u].state = "ok" => disk[u].record.created_at <= disk[u].record.updated_at)
    /\ [][\A u \in Users : Saved(u) =>
             /\ disk'[u].record.updated_at = now
             /\ disk[u].state = "ok" =>
                   /\ disk'[u].record.created_at = disk[u].record.created_at
                   /\ disk'[u].record.updated_at >= disk[u].record.updated_at]_vars

\* C23 witness: a record created at one time has been saved again at a
\* later time.
C23_Witness ==
    \E u \in Users :
        /\ disk[u].state = "ok"
        /\ last_save.user_id = u
        /\ disk[u].record.created_at = 1
        /\ disk[u].record.updated_at = 2

\* A verse is delivered to user u in this step.
Delivers(u) ==
    /\ sent'.user_id = u
    /\ sent'.kind = "embed"
    /\ sent'.content = VerseText

\* The entry is a verse_delivery entry of the daily delivery or of /quote.
IsVerseEntry(entry) ==
    /\ "event_type" \in DOMAIN entry
    /\ entry.event_type = "verse_delivery"
    /\ entry.meta.source \in {"daily", "quote"}

\* C24: a verse delivered to a user, by the scheduled daily delivery or by
\* /quote, becomes part of that user's history as a verse_delivery entry
\* (source "daily" or "quote"), and no generation call is made.
C24_DeliveredVerseIsLogged ==
    [][\A u \in Users : Delivers(u) =>
          /\ Stored(u)' # <<>>
          /\ IsVerseEntry(Last(Stored(u)'))
          /\ Len(Stored(u)') = Min(Len(Stored(u)) + 1, 40)
          /\ calls' = calls]_vars

\* A write to the preference store for user u ends in this step.
Writes(op, u) == ops' = ops + 1 /\ seen'.op = op /\ seen'.user_id = u

\* C28: after each save_user_settings or mark_greeted call persist.json
\* holds what the memory holds, and when save_user_settings returns False
\* the settings of that user in memory are what they were before the call.
C28_StoreFlushedOrUnchanged ==
    [][\A u \in Users :
          /\ (Writes("save_user_settings", u) \/ Writes("mark_greeted", u)) =>
                persist' = [state |-> "ok", content |-> data']
          /\ (Writes("save_user_settings", u) /\ seen'.raised) =>
                data'.users[u] = data.users[u]]_vars

\* Call i returned without error and without text.
EmptySuccess(i) == E[i].result = "ok" /\ E[i].text \in {None, ""}

\* C31: a generation call that returns without error but with empty or
\* absent text counts as success: it is the last call of the chat call,
\* chat returns the empty string and stores a model turn with empty
\* content; no further model is tried and no exhaustion error is raised.
C31_EmptyTextIsSuccess ==
    \A i \in CallIdx : EmptySuccess(i) =>
        /\ i = Len(E)
        /\ Owner.pc = "returned"
        /\ Owner.reply_text = ""
        /\ calls.raised = NoError
        /\ Stored(Owner.user) # <<>>
        /\ Stored(Owner.user)[Len(Stored(Owner.user))].role = "model"
        /\ Stored(Owner.user)[Len(Stored(Owner.user))].content = ""

\* C31 witness: the primary model answered without text on its first call
\* and the chat call has returned.
C31_Witness ==
    /\ calls.owner # 0
    /\ Len(E) = 1
    /\ E[1].result = "ok" /\ E[1].text = None
    /\ E[1].model = DEFAULT_MODEL
    /\ Owner.pc = "returned"

JobsOf(js, u) == {j \in js : j.id = "daily_verse_" \o u}

\* Hour and minute of the well-formed times that are tried.
Meaning == ("08:00" :> <<8, 0>>) @@ ("06:30" :> <<6, 30>>)

\* C33: after any sequence of setup_user_schedule and remove_user_schedule
\* calls the scheduler holds at most one job per user, with id
\* daily_verse_<user_id>; after a successful setup_user_schedule that job
\* carries the time and timezone of that call, the most recent successful
\* one; after remove_user_schedule the user has no job.
C33_OneJobPerUser ==
    /\ [](\A u \in Users : Cardinality(JobsOf(jobs, u)) <= 1)
    /\ [](\A j \in jobs : \E u \in Users : j \in JobsOf(jobs, u) /\ j.args = u)
    /\ [][\A u \in Users :
             /\ \A time \in TimeInputs, timezone \in TimezoneInputs :
                   (SetupUserSchedule(u, time, timezone) /\ seen'.count = 1) =>
                       /\ time \in DOMAIN Meaning
                       /\ \E j \in jobs' :
                             /\ JobsOf(jobs', u) = {j}
                             /\ <<j.hour, j.minute>> = Meaning[time]
                             /\ j.timezone = timezone
             /\ RemoveUserSchedule(u) => JobsOf(jobs', u) = {}
             /\ (seen'.user_id = u /\ seen'.count = 0) => JobsOf(jobs', u) = JobsOf(jobs, u)
             /\ seen'.user_id # u => JobsOf(jobs', u) = JobsOf(jobs, u)]_vars

\* C33 witness: u1's job was set, set again with another time and zone,
\* and holds the second; u2 has a job of its own.
C33_Witness ==
    /\ \E j \in jobs : JobsOf(jobs, "u1") = {j} /\ j.hour = 6 /\ j.minute = 30
                       /\ j.timezone = "Asia/Tokyo"
    /\ Cardinality(JobsOf(jobs, "u2")) = 1
    /\ ops = 4

\* Times that are not two integers around one colon.
NotHHMM == {"8", "ab:cd", "08:00:00"}

\* C34: setup_user_schedule called with a time that is not HH:MM integers
\* or with an unknown timezone returns False without raising and leaves
\* the user's job, if there is one, in place and unchanged.
C34_BadInputKeepsJob ==
    [][\A u \in Users, time \in TimeInputs, timezone \in TimezoneInputs :
          (/\ SetupUserSchedule(u, time, timezone)
           /\ time \in NotHHMM \/ timezone = "Mars/Phobos") =>
              /\ seen'.op = "setup_user_schedule"
              /\ seen'.count = 0
              /\ seen'.raised
              /\ jobs' = jobs]_vars

\* C34 witness: a call with a bad time has returned False and the job the
\* user had is still there.
C34_Witness ==
    /\ seen.op = "setup_user_schedule"
    /\ seen.user_id = "u1"
    /\ seen.count = 0
    /\ \E j \in jobs : j.id = "daily_verse_u1" /\ j.hour = 8

\* The items page p of the view shows.
PageItems(v, p) == get_page_items([v EXCEPT !.current_page = p])

\* C36: for a paginated view built over a non-empty item list,
\* 0 <= current_page <= total_pages - 1 after any sequence of previous-page
\* and next-page clicks, each click changes current_page by at most one,
\* and every selectable page shows between 1 and items_per_page items.
C36_PageInRange ==
    /\ [](Len(view.items) > 0 =>
             /\ 0 <= view.current_page
             /\ view.current_page <= view.total_pages - 1
             /\ \A p \in 0..(view.total_pages - 1) :
                   /\ Len(PageItems(view, p)) >= 1
                   /\ Len(PageItems(view, p)) <= view.items_per_page)
    /\ [][(PreviousPage \/ NextPage) =>
             /\ view'.current_page - view.current_page \in {-1, 0, 1}
             /\ view'.items = view.items
             /\ view'.total_pages = view.total_pages]_vars

\* C36 witness: the view over 11 items with 5 per page is on its third and
\* last page, which shows the one item left.
C36_Witness ==
    /\ Len(view.items) = 11
    /\ view.items_per_page = 5
    /\ view.current_page = 2
    /\ view.total_pages = 3
    /\ get_page_items(view) = <<11>>

\* C37: send_daily_verse never raises to the scheduler and sends at most
\* one DM per invocation; it sends no DM when the user has no stored
\* settings or when the verse fetch fails, and it never modifies the
\* user's stored settings or schedule.
C37_DailyVerseIsQuiet ==
    [][\A j \in jobs, fetched \in BOOLEAN, found \in FetchUserIO, dm \in SendIO :
          RunJob(j, fetched, found, dm) =>
              /\ seen'.op = "send_daily_verse"
              /\ ~seen'.raised
              /\ seen'.count <= 1
              /\ (data.users[j.args] = NoSettings \/ ~fetched) =>
                    (seen'.count = 0 /\ sent' = NoSent)
              /\ sent' # NoSent => (seen'.count = 1 /\ sent'.user_id = j.args)
              /\ data' = data
              /\ persist' = persist
              /\ jobs' = jobs]_vars

\* C37 witness: u1 has settings and a job, u2 a job and no settings; the
\* job of u2 has run and nothing was sent.
C37_Witness ==
    /\ data.users["u1"] # NoSettings
    /\ data.users["u2"] = NoSettings
    /\ \E j \in jobs : j.args = "u1"
    /\ \E j \in jobs : j.args = "u2"
    /\ seen.op = "send_daily_verse"
    /\ seen.user_id = "u2"
    /\ seen.count = 0
    /\ sent = NoSent

\* A call of op ends in this step.
Calls(op) == ops' = ops + 1 /\ seen'.op = op

\* C38: get_bible_versions caches only successful fetches: once a fetch
\* has succeeded every later call returns the same cached list without
\* issuing an HTTP request, while a failed fetch returns an empty list,
\* leaves the cache unset, and the next call issues a new request.
C38_OnlySuccessIsCached ==
    /\ [][cache.set => (cache' = cache /\ http' = http)]_vars
    /\ [][Calls("get_bible_versions") =>
             /\ cache.set => listed' = cache.versions
             /\ ~cache.set => http' = http + 1
             /\ (~cache.set /\ seen'.raised) => (listed' = <<>> /\ cache' = NoCache)
             /\ (~cache.set /\ ~seen'.raised) => (cache'.set /\ listed' = cache'.versions)]_vars

\* C38 witness: the first fetch failed, the second gave the whole
\* catalogue, and the two calls after it returned it without a request.
C38_Witness ==
    /\ ops = 4
    /\ http = 2
    /\ cache = [set |-> TRUE, versions |-> Catalogue]
    /\ seen.op = "get_bible_versions"
    /\ seen.count = 0
    /\ listed = Catalogue

\* The place of the first priority keyword the version's name holds, 0
\* when it holds none.
Rank(version) ==
    IF \E k \in 1..Len(priority_keywords) : Matches(version, k)
    THEN CHOOSE k \in 1..Len(priority_keywords) :
            /\ Matches(version, k)
            /\ \A l \in 1..(k - 1) : ~Matches(version, l)
    ELSE 0

\* The list get_bible_versions gave in the step.
AllVersions == IF cache'.set THEN cache'.versions ELSE <<>>

\* C39: get_common_english_versions returns at most 6 versions, all with
\* language id 'eng', with no version id appearing twice, with versions
\* matching the priority keywords ordered by keyword priority, and with
\* non-matching English versions appended only when fewer than 4 priority
\* matches were found.
C39_CommonEnglishVersions ==
    [][Calls("get_common_english_versions") =>
          /\ Len(listed') <= 6
          /\ \A i \in 1..Len(listed') :
                /\ listed'[i].language = "eng"
                /\ \E n \in 1..Len(AllVersions) : AllVersions[n] = listed'[i]
          /\ \A i, j \in 1..Len(listed') :
                i < j =>
                   /\ listed'[i].id # listed'[j].id
                   /\ Rank(listed'[i]) = 0 => Rank(listed'[j]) = 0
                   /\ Rank(listed'[j]) # 0 => Rank(listed'[i]) <= Rank(listed'[j])
          /\ (\E i \in 1..Len(listed') : Rank(listed'[i]) = 0) =>
                Cardinality({i \in 1..Len(listed') : Rank(listed'[i]) # 0}) < 4]_vars

\* C39 witness: of the whole catalogue six versions are returned, the King
\* James ones first and the American Standard Version, the first of the
\* catalogue, last; Darby and the versions without keyword are left out.
C39_Witness ==
    /\ seen.op = "get_common_english_versions"
    /\ cache.versions = Catalogue
    /\ [i \in 1..Len(listed) |-> listed[i].id] = <<"kjv", "akjv", "web", "bbe", "wbs", "asv">>
    /\ listed[1].name = "King James (Authorised) Version"

\* The order of the steps of /setup.
StepOrder == <<"version", "timezone", "time", "confirm">>

\* The settings the session holds, as save_user_settings stores them.
Chosen(state) ==
    [bible_version |-> state.bible_version, scheduled_time |-> state.time,
     timezone |-> state.timezone]

\* C35: in the /setup flow the steps occur in the order version, timezone,
\* time, confirmation; save_user_settings and setup_user_schedule are
\* called only after the user confirms, with all three of bible_version,
\* timezone and time set, and the schedule is set up only if saving
\* succeeded. Cancelling or timing out at any step leaves the stored
\* settings and the scheduler's jobs unchanged.
C35_SetupFlowOrder ==
    /\ [](/\ Len(flow.shown) <= Len(StepOrder)
          /\ flow.shown = SubSeq(StepOrder, 1, Len(flow.shown))
          /\ flow.view \in OpenViews => flow.view = Last(flow.shown))
    /\ [][(data' # data \/ persist' # persist \/ jobs' # jobs) =>
             /\ \E io \in FlushIO : Confirm(io)
             /\ flow.shown = StepOrder
             /\ flow.bible_version # None /\ flow.timezone # None /\ flow.time # None
             /\ data'.users[flow.user_id] = Chosen(flow)
             /\ jobs' # jobs => (~seen'.raised /\ persist' = PersistOf(data'))
             /\ seen'.raised => jobs' = jobs]_vars
    /\ [][(Cancel \/ Timeout) => (data' = data /\ persist' = persist /\ jobs' = jobs)]_vars

\* C35 witness: u1 went through the four steps and confirmed; in a second
\* session u1 chose other values and cancelled at the confirmation: the
\* settings and the job are those of the first session.
C35_Witness ==
    /\ ops = 2
    /\ flow.user_id = "u1"
    /\ flow.view = "cancelled"
    /\ flow.shown = StepOrder
    /\ flow.time = "06:00"
    /\ data.users["u1"] = [bible_version |-> "kjv", scheduled_time |-> "11:00",
                           timezone |-> "Asia/Tokyo"]
    /\ persist = PersistOf(data)
    /\ \E j \in jobs : /\ JobsOf(jobs, "u1") = {j}
                       /\ j.hour = 11 /\ j.minute = 0 /\ j.timezone = "Asia/Tokyo"

====
